---- MODULE Spec2Model ----
(***************************************************************************)
(* CO2 portfolio calculator (bdslnf/co2-calculator): emissions, renovation *)
(* catalog, subsidies and the financial evaluation, as run by main().      *)
(*                                                                         *)
(* Numbers.  The program computes in binary64.  The model computes the     *)
(* catalog, the subsidies, the savings, the amortisation and the ROI in    *)
(* exact rational arithmetic: a number is a record [n, d] in lowest terms  *)
(* with d > 0.  float("inf") is Inf.  A Python ZeroDivisionError is the    *)
(* value ZeroDivisionError, which every operation propagates.  The         *)
(* compounded sums (NPV, total return) are computed in whole Rappen with   *)
(* growth factors rounded down to 1/PotenzRaster.  The priority score is   *)
(* the weighted sum of its four parts, each cut to thousandths.            *)
(* Identifiers are the source's; umlauts are written ae, oe, ue.           *)
(***************************************************************************)
EXTENDS Integers, Sequences, FiniteSets, TLC

VARIABLES df, pc, fehler, df_mit_emissionen, position, szenarien,
          kombinationen, alle_sanierungen, aufrufe, eingabe, modul, laeufe

vars == <<df, pc, fehler, df_mit_emissionen, position, szenarien,
          kombinationen, alle_sanierungen, aufrufe, eingabe, modul, laeufe>>

----------------------------------------------------------------------------
(* Exact rational arithmetic *)

\* Python evaluates an operand once and binds the result.  Wert binds the
\* value of x before F is applied to it.
Wert(x, F(_)) == CHOOSE r \in {F(v) : v \in {x}} : TRUE

Wert2(x, y, F(_, _)) == CHOOSE r \in {F(v, w) : v \in {x}, w \in {y}} : TRUE

Wert4(x, y, z, u, F(_, _, _, _)) ==
    CHOOSE r \in {F(a, b, c, d) : a \in {x}, b \in {y}, c \in {z}, d \in {u}} : TRUE

Abs(x) == IF x < 0 THEN -x ELSE x

RECURSIVE GGT(_, _)
GGT(a, b) == IF b = 0 THEN a ELSE GGT(b, a % b)

Rat(n, d) == Wert(GGT(Abs(n), d), LAMBDA g : [n |-> n \div g, d |-> d \div g])

R(n) == [n |-> n, d |-> 1]

Inf == [n |-> 1, d |-> 0]

ZeroDivisionError == [n |-> 0, d |-> 0]

\* float("nan"): the value pandas puts into a cell whose row has no such key.
NaN == [n |-> 0, d |-> -2]

IstZahl(a) == a.d > 0

\* A Python float: a finite number, inf or nan.
IstFloat(a) == IstZahl(a) \/ a = Inf \/ a = NaN

Add(x, y) ==
    Wert2(x, y, LAMBDA a, b :
        IF IstFloat(a) /\ IstFloat(b) /\ NaN \in {a, b} THEN NaN
        ELSE IF (a = Inf /\ (b = Inf \/ IstZahl(b))) \/ (b = Inf /\ IstZahl(a)) THEN Inf
        ELSE IF ~IstZahl(a) \/ ~IstZahl(b) THEN ZeroDivisionError
        ELSE Wert(GGT(a.d, b.d), LAMBDA g :
                 Rat(a.n * (b.d \div g) + b.n * (a.d \div g), (a.d \div g) * b.d)))

Neg(x) == Wert(x, LAMBDA a : [n |-> -a.n, d |-> a.d])

Sub(a, b) == Add(a, Neg(b))

\* The factors are in lowest terms, so the product is after cancelling crosswise.
Mul(x, y) ==
    Wert2(x, y, LAMBDA a, b :
        IF IstFloat(a) /\ IstFloat(b) /\ NaN \in {a, b} THEN NaN
        ELSE IF ~IstZahl(a) \/ ~IstZahl(b) THEN ZeroDivisionError
        ELSE Wert2(GGT(Abs(a.n), b.d), GGT(Abs(b.n), a.d), LAMBDA g1, g2 :
                 [n |-> (a.n \div g1) * (b.n \div g2), d |-> (a.d \div g2) * (b.d \div g1)]))

\* Python float division: a zero divisor raises ZeroDivisionError.
Div(x, y) ==
    Wert2(x, y, LAMBDA a, b :
        IF IstFloat(a) /\ IstFloat(b) /\ NaN \in {a, b} /\ b # R(0) THEN NaN
        ELSE IF IstZahl(a) /\ b = Inf THEN R(0)
        ELSE IF ~IstZahl(a) \/ ~IstZahl(b) \/ b.n = 0 THEN ZeroDivisionError
        ELSE Mul(a, IF b.n > 0 THEN [n |-> b.d, d |-> b.n] ELSE [n |-> -b.d, d |-> -b.n]))

RECURSIVE Kleiner(_, _, _, _)
\* an / ad < bn / bd for ad, bd > 0: the whole parts decide, or else the
\* fractions, compared through their reciprocals (no product is formed).
Kleiner(an, ad, bn, bd) ==
    IF an \div ad # bn \div bd THEN an \div ad < bn \div bd
    ELSE IF bn % bd = 0 THEN FALSE
    ELSE IF an % ad = 0 THEN TRUE
    ELSE Kleiner(bd, bn % bd, ad, an % ad)

\* a < b on finite numbers, Inf and NaN: a comparison with nan is False.
Lt(x, y) ==
    Wert2(x, y, LAMBDA a, b :
        IF NaN \in {a, b} THEN FALSE
        ELSE IF a = Inf THEN FALSE
        ELSE IF b = Inf THEN TRUE
        ELSE Kleiner(a.n, a.d, b.n, b.d))

Leq(x, y) == Wert2(x, y, LAMBDA a, b : (a = b /\ a # NaN) \/ Lt(a, b))

Min(x, y) == Wert2(x, y, LAMBDA a, b : IF Lt(b, a) THEN b ELSE a)

Max(x, y) == Wert2(x, y, LAMBDA a, b : IF Lt(a, b) THEN b ELSE a)

\* dict.get(key, default)
Get(dict, key, default) == IF key \in DOMAIN dict THEN dict[key] ELSE default

\* floor(a * b / c) for a in Int, b, c > 0, without leaving 32 bits.
MulDiv(x, y, z) ==
    Wert2(x, <<y, z>>, LAMBDA a, bc :
        (a \div bc[2]) * bc[1] + ((a % bc[2]) * bc[1]) \div bc[2])

\* floor(x * 100): a CHF amount in whole Rappen.
Rappen(x) == Wert(x, LAMBDA a : MulDiv(a.n, 100, a.d))

----------------------------------------------------------------------------
(* emissionen.py *)

KBOB_FAKTOREN ==
    "Gas" :> Rat(228, 1000) @@ "Oel" :> Rat(302, 1000) @@
    "Fernwaerme" :> Rat(95, 1000) @@ "Waermepumpe" :> Rat(50, 1000) @@
    "Pellets" :> Rat(26, 1000) @@ "Solar" :> R(0) @@
    "Default" :> Rat(50, 1000)

STROM_FAKTOR_CH == Rat(122, 1000)

required_cols ==
    <<"gebaeude_id", "jahr", "heizung_typ", "jahresverbrauch_kwh", "strom_kwh_jahr">>

Bereich(s) == {s[i] : i \in DOMAIN s}

\* The words main() looks for, as far as a text contains them.  The fixed
\* parts of the messages are listed by their first words; every other text
\* of the model is a column name or a heating type name.
Stichwoerter(text) ==
    CASE text = "Fehlende Spalten: " -> {"Fehlende"}
      [] text = "Negative Werte in " -> {"Negative"}
      [] text = "Warnung: " -> {"Warnung"}
      [] text = "Unbekannte Heizungstypen: " -> {}
      [] text = "Fehlende Angabe" -> {"Fehlende"}
      [] OTHER -> {}

\* A message is its fixed text and the values formatted into it.
Meldung(text, werte) == [text |-> text, werte |-> werte]

\* Python: wort in f
Enthaelt(wort, f) ==
    \/ wort \in Stichwoerter(f.text)
    \/ \E w \in f.werte : wort \in Stichwoerter(w)

\* (df[spalte] <= 0).any()
negative_werte_mit_null(d, spalte) ==
    \E i \in DOMAIN d.zeilen : Leq(d.zeilen[i][spalte], R(0))

\* (df[spalte] < 0).any()
negative_werte(d, spalte) ==
    \E i \in DOMAIN d.zeilen : Lt(d.zeilen[i][spalte], R(0))

validiere_eingabedaten(d) ==
    LET missing == SelectSeq(required_cols, LAMBDA col : col \notin d.spalten)
        verbrauch == {d.zeilen[i]["jahresverbrauch_kwh"] : i \in DOMAIN d.zeilen}
        unbekannte == {d.zeilen[i]["heizung_typ"] : i \in DOMAIN d.zeilen}
                          \ DOMAIN KBOB_FAKTOREN
        f1 == IF negative_werte(d, "jahresverbrauch_kwh")
              THEN <<Meldung("Negative Werte in ", {"jahresverbrauch_kwh"})>>
              ELSE <<>>
        f2 == IF negative_werte(d, "strom_kwh_jahr")
              THEN <<Meldung("Negative Werte in ", {"strom_kwh_jahr"})>>
              ELSE <<>>
        f3 == IF \E v \in verbrauch : Lt(R(500000), v)
              THEN <<Meldung("Warnung: ", {})>>
              ELSE <<>>
        f4 == IF unbekannte # {}
              THEN <<Meldung("Unbekannte Heizungstypen: ", unbekannte)>>
              ELSE <<>>
    IN IF missing # <<>>
       THEN <<Meldung("Fehlende Spalten: ", Bereich(missing))>>
       ELSE f1 \o f2 \o f3 \o f4

\* The fallback 0.2 of the catalog instead of the table's Default.
faktor_heizen_fallback_02(heizung_typ) ==
    Get(KBOB_FAKTOREN, heizung_typ, Rat(2, 10))

\* df["heizung_typ"].map(heiz_faktoren).fillna(heiz_faktoren["Default"])
faktor_heizen(heizung_typ) ==
    IF heizung_typ \in DOMAIN KBOB_FAKTOREN
    THEN KBOB_FAKTOREN[heizung_typ]
    ELSE KBOB_FAKTOREN["Default"]

\* One row of berechne_emissionen.
berechne_emissionen_zeile(zeile) ==
    Wert2(Mul(zeile["jahresverbrauch_kwh"], faktor_heizen(zeile["heizung_typ"])),
          Mul(zeile["strom_kwh_jahr"], STROM_FAKTOR_CH), LAMBDA heizen, strom :
        Wert(Add(heizen, strom), LAMBDA gesamt :
            [faktor_heizen |-> faktor_heizen(zeile["heizung_typ"]),
             emissionen_heizen_kg |-> heizen,
             emissionen_strom_kg |-> strom,
             emissionen_gesamt_kg |-> gesamt,
             emissionen_gesamt_t |-> Div(gesamt, R(1000))] @@ zeile))

berechne_emissionen(zeilen) ==
    [i \in DOMAIN zeilen |-> berechne_emissionen_zeile(zeilen[i])]

----------------------------------------------------------------------------
(* sanierungen.py *)

\* Python None, and the truth value of an optional number.
None == [n |-> 0, d |-> -1]

Wahr(x) == Wert(x, LAMBDA a : a # None /\ a.n # 0)

SANIERUNGSKATALOG ==
    "heizung_gas_zu_wp" :>
        [name |-> "Heizungsersatz Gas -> Waermepumpe", kategorie |-> "Heizung",
         investition_chf |-> R(50000), lebensdauer_jahre |-> 25,
         neue_heizung |-> "Waermepumpe", energieeinsparung_prozent |-> R(0)] @@
    "heizung_oel_zu_wp" :>
        [name |-> "Heizungsersatz Oel -> Waermepumpe", kategorie |-> "Heizung",
         investition_chf |-> R(50000), lebensdauer_jahre |-> 25,
         neue_heizung |-> "Waermepumpe", energieeinsparung_prozent |-> R(0)] @@
    "daemmung_fassade" :>
        [name |-> "Fassadendaemmung", kategorie |-> "Gebaeudehuelle",
         investition_chf_pro_m2 |-> R(280), lebensdauer_jahre |-> 50,
         energieeinsparung_prozent |-> R(25)] @@
    "daemmung_dach" :>
        [name |-> "Dachdaemmung", kategorie |-> "Gebaeudehuelle",
         investition_chf_pro_m2 |-> R(220), lebensdauer_jahre |-> 50,
         energieeinsparung_prozent |-> R(15)] @@
    "fenster" :>
        [name |-> "Fensterersatz", kategorie |-> "Gebaeudehuelle",
         investition_chf_pro_m2 |-> R(850), lebensdauer_jahre |-> 50,
         energieeinsparung_prozent |-> R(12)] @@
    "solar_pv" :>
        [name |-> "Photovoltaikanlage", kategorie |-> "Stromerzeugung",
         investition_chf_pro_kwp |-> R(1800), lebensdauer_jahre |-> 25,
         eigenverbrauch_prozent |-> R(30)] @@
    "solar_thermie" :>
        [name |-> "Solarthermie Warmwasser", kategorie |-> "Warmwasser",
         investition_chf |-> R(10000), lebensdauer_jahre |-> 25,
         warmwasser_deckung_prozent |-> R(60)]

FOERDERGELDER ==
    "heizung_gas_zu_wp" :>
        [gebaeudeprogramm_chf |-> R(1000), kanton_zusatz_prozent |-> R(20),
         max_foerderung_chf |-> R(25000)] @@
    "heizung_oel_zu_wp" :>
        [gebaeudeprogramm_chf |-> R(1000), kanton_zusatz_prozent |-> R(20),
         max_foerderung_chf |-> R(30000)] @@
    "daemmung_fassade" :>
        [gebaeudeprogramm_chf_pro_m2 |-> R(40), max_foerderung_chf |-> R(50000)] @@
    "daemmung_dach" :>
        [gebaeudeprogramm_chf_pro_m2 |-> R(35), max_foerderung_chf |-> R(40000)] @@
    "fenster" :>
        [gebaeudeprogramm_chf_pro_m2 |-> R(70), max_foerderung_chf |-> R(30000)] @@
    "solar_pv" :>
        [einmalverguetung_chf_pro_kwp |-> R(380), max_foerderung_chf |-> R(15000)]

\* The subsidy limited by the configured ceiling only.
berechne_foerderung_nur_max(sanierung_id, investition, gebaeude, flaeche, kwp) ==
    IF sanierung_id \notin DOMAIN FOERDERGELDER THEN R(0)
    ELSE Wert(FOERDERGELDER[sanierung_id], LAMBDA foerderung_config :
        Wert4(Get(foerderung_config, "gebaeudeprogramm_chf", R(0)),
              IF "gebaeudeprogramm_chf_pro_m2" \in DOMAIN foerderung_config /\ Wahr(flaeche)
              THEN Mul(foerderung_config["gebaeudeprogramm_chf_pro_m2"], flaeche)
              ELSE R(0),
              IF "einmalverguetung_chf_pro_kwp" \in DOMAIN foerderung_config /\ Wahr(kwp)
              THEN Mul(foerderung_config["einmalverguetung_chf_pro_kwp"], kwp)
              ELSE R(0),
              IF "kanton_zusatz_prozent" \in DOMAIN foerderung_config
              THEN Mul(investition, Div(foerderung_config["kanton_zusatz_prozent"], R(100)))
              ELSE R(0),
              LAMBDA pauschal, pro_m2, pro_kwp, kanton_zusatz :
            Min(Add(Add(Add(pauschal, pro_m2), pro_kwp), kanton_zusatz),
                Get(foerderung_config, "max_foerderung_chf", Inf))))

berechne_foerderung(sanierung_id, investition, gebaeude, flaeche, kwp) ==
    IF sanierung_id \notin DOMAIN FOERDERGELDER THEN R(0)
    ELSE Wert(FOERDERGELDER[sanierung_id], LAMBDA foerderung_config :
        Wert4(Get(foerderung_config, "gebaeudeprogramm_chf", R(0)),
              IF "gebaeudeprogramm_chf_pro_m2" \in DOMAIN foerderung_config /\ Wahr(flaeche)
              THEN Mul(foerderung_config["gebaeudeprogramm_chf_pro_m2"], flaeche)
              ELSE R(0),
              IF "einmalverguetung_chf_pro_kwp" \in DOMAIN foerderung_config /\ Wahr(kwp)
              THEN Mul(foerderung_config["einmalverguetung_chf_pro_kwp"], kwp)
              ELSE R(0),
              IF "kanton_zusatz_prozent" \in DOMAIN foerderung_config
              THEN Mul(investition, Div(foerderung_config["kanton_zusatz_prozent"], R(100)))
              ELSE R(0),
              LAMBDA pauschal, pro_m2, pro_kwp, kanton_zusatz :
            Wert2(Add(Add(Add(pauschal, pro_m2), pro_kwp), kanton_zusatz),
                  Get(foerderung_config, "max_foerderung_chf", Inf),
                  LAMBDA foerderung, max_foerderung :
                Min(Min(foerderung, max_foerderung), investition))))

\* A coefficient of performance of 3.
cop_3 == R(3)

\* Annahme: COP 3.5
cop == Rat(35, 10)

berechne_heizungsersatz(gebaeude, sanierung_id, emissionsfaktoren) ==
    Wert2(SANIERUNGSKATALOG[sanierung_id],
          Get(emissionsfaktoren, gebaeude["heizung_typ"], Rat(2, 10)),
          LAMBDA sanierung, alter_faktor :
    Wert2(Mul(gebaeude["jahresverbrauch_kwh"], alter_faktor),
          Div(gebaeude["jahresverbrauch_kwh"], cop),
          LAMBDA alte_emissionen, neuer_stromverbrauch :
    Wert2(Mul(neuer_stromverbrauch, Get(emissionsfaktoren, "Waermepumpe", Rat(5, 100))),
          sanierung["investition_chf"],
          LAMBDA neue_emissionen, investition :
    Wert2(Sub(alte_emissionen, neue_emissionen),
          berechne_foerderung(sanierung_id, investition, gebaeude, None, None),
          LAMBDA einsparung_kg, foerderung :
        [sanierung_id |-> sanierung_id,
         name |-> sanierung["name"],
         kategorie |-> sanierung["kategorie"],
         investition_brutto_chf |-> investition,
         foerderung_chf |-> foerderung,
         investition_netto_chf |-> Sub(investition, foerderung),
         co2_einsparung_kg_jahr |-> einsparung_kg,
         co2_einsparung_prozent |-> IF Lt(R(0), alte_emissionen)
                                    THEN Mul(Div(einsparung_kg, alte_emissionen), R(100))
                                    ELSE R(0),
         lebensdauer_jahre |-> sanierung["lebensdauer_jahre"],
         neuer_verbrauch_kwh |-> neuer_stromverbrauch,
         neue_heizung |-> sanierung["neue_heizung"]]))))

\* The ValueError of berechne_daemmung for a building without flaeche_m2.
ValueError == [fehler |-> "ValueError"]

berechne_daemmung(gebaeude, sanierung_id, emissionsfaktoren) ==
    IF "flaeche_m2" \notin DOMAIN gebaeude THEN ValueError
    ELSE
    Wert2(SANIERUNGSKATALOG[sanierung_id],
          IF sanierung_id = "daemmung_fassade"
          THEN Mul(gebaeude["flaeche_m2"], Rat(25, 10))
          ELSE IF sanierung_id = "daemmung_dach"
          THEN Mul(gebaeude["flaeche_m2"], Rat(12, 10))
          ELSE gebaeude["flaeche_m2"],
          LAMBDA sanierung, flaeche :
    Wert2(Mul(sanierung["investition_chf_pro_m2"], flaeche),
          Mul(gebaeude["jahresverbrauch_kwh"],
              Div(sanierung["energieeinsparung_prozent"], R(100))),
          LAMBDA investition, energieeinsparung_kwh :
    Wert2(berechne_foerderung(sanierung_id, investition, gebaeude, flaeche, None),
          Get(emissionsfaktoren, gebaeude["heizung_typ"], Rat(2, 10)),
          LAMBDA foerderung, faktor :
        [sanierung_id |-> sanierung_id,
         name |-> sanierung["name"],
         kategorie |-> sanierung["kategorie"],
         flaeche_m2 |-> flaeche,
         investition_brutto_chf |-> investition,
         foerderung_chf |-> foerderung,
         investition_netto_chf |-> Sub(investition, foerderung),
         energieeinsparung_kwh_jahr |-> energieeinsparung_kwh,
         co2_einsparung_kg_jahr |-> Mul(energieeinsparung_kwh, faktor),
         co2_einsparung_prozent |-> sanierung["energieeinsparung_prozent"],
         lebensdauer_jahre |-> sanierung["lebensdauer_jahre"]])))

\* berechne_solar_pv(gebaeude, kwp=None, emissionsfaktoren)
berechne_solar_pv(gebaeude, kwp_arg, emissionsfaktoren) ==
    Wert2(SANIERUNGSKATALOG["solar_pv"],
          IF kwp_arg = None
          THEN IF "flaeche_m2" \notin DOMAIN gebaeude
               THEN R(10)
               ELSE Mul(Div(Mul(gebaeude["flaeche_m2"], Rat(12, 10)), R(100)), R(6))
          ELSE kwp_arg,
          LAMBDA sanierung, kwp :
    Wert2(Mul(kwp, R(1000)),
          IF emissionsfaktoren # None
          THEN Get(emissionsfaktoren, "Strom", Rat(122, 1000))
          ELSE Rat(122, 1000),
          LAMBDA jahresertrag_kwh, strom_faktor :
    Wert2(Mul(jahresertrag_kwh, Div(sanierung["eigenverbrauch_prozent"], R(100))),
          Mul(sanierung["investition_chf_pro_kwp"], kwp),
          LAMBDA eigenverbrauch_kwh, investition :
    Wert(berechne_foerderung("solar_pv", investition, gebaeude, None, kwp),
         LAMBDA foerderung :
        [sanierung_id |-> "solar_pv",
         name |-> sanierung["name"],
         kategorie |-> sanierung["kategorie"],
         leistung_kwp |-> kwp,
         jahresertrag_kwh |-> jahresertrag_kwh,
         eigenverbrauch_kwh |-> eigenverbrauch_kwh,
         investition_brutto_chf |-> investition,
         foerderung_chf |-> foerderung,
         investition_netto_chf |-> Sub(investition, foerderung),
         co2_einsparung_kg_jahr |-> Mul(eigenverbrauch_kwh, strom_faktor),
         lebensdauer_jahre |-> sanierung["lebensdauer_jahre"]]))))

\* Accepts a floor area of 0.
flaeche_vorhanden_ab_null(gebaeude) ==
    "flaeche_m2" \in DOMAIN gebaeude /\ Leq(R(0), gebaeude["flaeche_m2"])

\* "flaeche_m2" in gebaeude and gebaeude["flaeche_m2"] > 0
flaeche_vorhanden(gebaeude) ==
    "flaeche_m2" \in DOMAIN gebaeude /\ Lt(R(0), gebaeude["flaeche_m2"])

erstelle_alle_szenarien(gebaeude, emissionsfaktoren) ==
    (IF gebaeude["heizung_typ"] = "Gas"
     THEN <<berechne_heizungsersatz(gebaeude, "heizung_gas_zu_wp", emissionsfaktoren)>>
     ELSE IF gebaeude["heizung_typ"] = "Oel"
     THEN <<berechne_heizungsersatz(gebaeude, "heizung_oel_zu_wp", emissionsfaktoren)>>
     ELSE <<>>)
    \o (IF flaeche_vorhanden(gebaeude)
        THEN <<berechne_daemmung(gebaeude, "daemmung_fassade", emissionsfaktoren),
               berechne_daemmung(gebaeude, "daemmung_dach", emissionsfaktoren),
               berechne_daemmung(gebaeude, "fenster", emissionsfaktoren)>>
        ELSE <<>>)
    \o <<berechne_solar_pv(gebaeude, None, emissionsfaktoren)>>

\* Takes the field of one measure for the sum.
Summe_erste(massnahmen, feld, k) == massnahmen[k][feld]

RECURSIVE Summe(_, _, _)
\* sum([m[feld] for m in massnahmen]), from the k-th measure on
Summe(massnahmen, feld, k) ==
    IF k > Len(massnahmen) THEN R(0)
    ELSE Add(massnahmen[k][feld], Summe(massnahmen, feld, k + 1))

\* Both combinations are for a fossil heating; heizung and solar are computed
\* from the same arguments in both.
erstelle_kombinationsszenarien(gebaeude, emissionsfaktoren) ==
    IF gebaeude["heizung_typ"] \notin {"Gas", "Oel"} THEN <<>>
    ELSE
    Wert2(berechne_heizungsersatz(gebaeude,
                                  IF gebaeude["heizung_typ"] = "Gas"
                                  THEN "heizung_gas_zu_wp" ELSE "heizung_oel_zu_wp",
                                  emissionsfaktoren),
          berechne_solar_pv(gebaeude, None, emissionsfaktoren),
          LAMBDA heizung, solar :
        <<[sanierung_id |-> "kombi_heizung_solar",
           name |-> "Kombi: Waermepumpe + PV",
           kategorie |-> "Kombination",
           investition_brutto_chf |->
               Add(heizung["investition_brutto_chf"], solar["investition_brutto_chf"]),
           foerderung_chf |->
               Add(heizung["foerderung_chf"], solar["foerderung_chf"]),
           investition_netto_chf |->
               Add(heizung["investition_netto_chf"], solar["investition_netto_chf"]),
           co2_einsparung_kg_jahr |->
               Add(heizung["co2_einsparung_kg_jahr"], solar["co2_einsparung_kg_jahr"]),
           lebensdauer_jahre |-> 20,
           massnahmen |-> <<heizung, solar>>]>>
        \o (IF flaeche_vorhanden(gebaeude)
            THEN Wert(<<heizung,
                        berechne_daemmung(gebaeude, "daemmung_fassade", emissionsfaktoren),
                        berechne_daemmung(gebaeude, "daemmung_dach", emissionsfaktoren),
                        solar>>, LAMBDA m :
                 <<[sanierung_id |-> "kombi_vollsanierung",
                    name |-> "Kombi: Vollsanierung Minergie",
                    kategorie |-> "Kombination",
                    investition_brutto_chf |-> Summe(m, "investition_brutto_chf", 1),
                    foerderung_chf |-> Summe(m, "foerderung_chf", 1),
                    investition_netto_chf |-> Summe(m, "investition_netto_chf", 1),
                    co2_einsparung_kg_jahr |-> Summe(m, "co2_einsparung_kg_jahr", 1),
                    lebensdauer_jahre |-> 30,
                    massnahmen |-> m]>>)
            ELSE <<>>))

----------------------------------------------------------------------------
(* wirtschaftlichkeit.py *)

ENERGIEPREISE ==
    "Gas" :> Rat(12, 100) @@ "Oel" :> Rat(13, 100) @@
    "Fernwaerme" :> Rat(14, 100) @@ "Strom" :> Rat(25, 100) @@
    "Waermepumpe" :> Rat(20, 100)

PREISSTEIGERUNG_PROZENT == Rat(25, 10)

DISKONTIERUNGSSATZ == R(2)

CO2_ABGABE_CHF_PRO_T == R(120)

NPV_ZEITRAUM_JAHRE == 25

\* The module namespace of wirtschaftlichkeit after import: the globals that
\* the functions of the module read when they are called.
Modul == [ENERGIEPREISE |-> ENERGIEPREISE, CO2_ABGABE_CHF_PRO_T |-> CO2_ABGABE_CHF_PRO_T]

\* Growth factors are kept to 1/PotenzRaster, rounded down.
PotenzRaster == 10000

_get_brutto_investition(sanierung) ==
    IF "investition_brutto_chf" \in DOMAIN sanierung
    THEN sanierung["investition_brutto_chf"]
    ELSE IF "investition_chf" \in DOMAIN sanierung
    THEN sanierung["investition_chf"]
    ELSE Max(R(0), Add(Get(sanierung, "investition_netto_chf", R(0)),
                       Get(sanierung, "foerderung_chf", R(0))))

_get_netto_investition(sanierung) ==
    IF "investition_netto_chf" \in DOMAIN sanierung
    THEN Max(R(0), sanierung["investition_netto_chf"])
    ELSE Max(R(0), Sub(_get_brutto_investition(sanierung),
                       Get(sanierung, "foerderung_chf", R(0))))

\* Charges the CO2 tax savings in the PV branch too.
berechne_jaehrliche_einsparung_pv_abgabe(sanierung, alte_heizung, alter_verbrauch_kwh, energiepreise, co2_abgabe_chf_pro_t) ==
    Wert(Get(energiepreise, alte_heizung, Rat(12, 100)), LAMBDA alter_preis :
    Wert(Mul(alter_verbrauch_kwh, alter_preis), LAMBDA alte_kosten :
    IF "neue_heizung" \notin DOMAIN sanierung
       /\ "energieeinsparung_kwh_jahr" \notin DOMAIN sanierung
       /\ "eigenverbrauch_kwh" \in DOMAIN sanierung
    THEN Wert(Mul(sanierung["eigenverbrauch_kwh"], Get(energiepreise, "Strom", Rat(25, 100))),
              LAMBDA einsparung_chf :
         Wert(Mul(Div(Get(sanierung, "co2_einsparung_kg_jahr", R(0)), R(1000)),
                  co2_abgabe_chf_pro_t), LAMBDA co2_abgabe_einsparung :
             [alte_energiekosten_chf |-> R(0),
              neue_energiekosten_chf |-> R(0),
              energiekosteneinsparung_chf |-> einsparung_chf,
              co2_abgabe_einsparung_chf |-> co2_abgabe_einsparung,
              gesamteinsparung_chf_jahr |-> Add(einsparung_chf, co2_abgabe_einsparung)]))
    ELSE
    Wert2(IF "neue_heizung" \in DOMAIN sanierung
          THEN Mul(Get(sanierung, "neuer_verbrauch_kwh", alter_verbrauch_kwh),
                   Get(energiepreise, sanierung["neue_heizung"], Rat(12, 100)))
          ELSE IF "energieeinsparung_kwh_jahr" \in DOMAIN sanierung
          THEN Mul(Max(R(0), Sub(alter_verbrauch_kwh, sanierung["energieeinsparung_kwh_jahr"])),
                   alter_preis)
          ELSE alte_kosten,
          Mul(Div(Get(sanierung, "co2_einsparung_kg_jahr", R(0)), R(1000)),
              co2_abgabe_chf_pro_t),
          LAMBDA neue_kosten, co2_abgabe_einsparung :
    Wert(Sub(alte_kosten, neue_kosten), LAMBDA energiekosteneinsparung :
        [alte_energiekosten_chf |-> alte_kosten,
         neue_energiekosten_chf |-> neue_kosten,
         energiekosteneinsparung_chf |-> energiekosteneinsparung,
         co2_abgabe_einsparung_chf |-> co2_abgabe_einsparung,
         gesamteinsparung_chf_jahr |->
             Add(energiekosteneinsparung, co2_abgabe_einsparung)]))))

\* Charges no new energy costs to a scenario without a shape key.
berechne_jaehrliche_einsparung_ohne_kosten(sanierung, alte_heizung, alter_verbrauch_kwh, energiepreise, co2_abgabe_chf_pro_t) ==
    Wert(Get(energiepreise, alte_heizung, Rat(12, 100)), LAMBDA alter_preis :
    Wert(Mul(alter_verbrauch_kwh, alter_preis), LAMBDA alte_kosten :
    IF "neue_heizung" \notin DOMAIN sanierung
       /\ "energieeinsparung_kwh_jahr" \notin DOMAIN sanierung
       /\ "eigenverbrauch_kwh" \in DOMAIN sanierung
    THEN Wert(Mul(sanierung["eigenverbrauch_kwh"], Get(energiepreise, "Strom", Rat(25, 100))),
              LAMBDA einsparung_chf :
             [alte_energiekosten_chf |-> R(0),
              neue_energiekosten_chf |-> R(0),
              energiekosteneinsparung_chf |-> einsparung_chf,
              co2_abgabe_einsparung_chf |-> R(0),
              gesamteinsparung_chf_jahr |-> einsparung_chf])
    ELSE
    Wert2(IF "neue_heizung" \in DOMAIN sanierung
          THEN Mul(Get(sanierung, "neuer_verbrauch_kwh", alter_verbrauch_kwh),
                   Get(energiepreise, sanierung["neue_heizung"], Rat(12, 100)))
          ELSE IF "energieeinsparung_kwh_jahr" \in DOMAIN sanierung
          THEN Mul(Max(R(0), Sub(alter_verbrauch_kwh, sanierung["energieeinsparung_kwh_jahr"])),
                   alter_preis)
          ELSE R(0),
          Mul(Div(Get(sanierung, "co2_einsparung_kg_jahr", R(0)), R(1000)),
              co2_abgabe_chf_pro_t),
          LAMBDA neue_kosten, co2_abgabe_einsparung :
    Wert(Sub(alte_kosten, neue_kosten), LAMBDA energiekosteneinsparung :
        [alte_energiekosten_chf |-> alte_kosten,
         neue_energiekosten_chf |-> neue_kosten,
         energiekosteneinsparung_chf |-> energiekosteneinsparung,
         co2_abgabe_einsparung_chf |-> co2_abgabe_einsparung,
         gesamteinsparung_chf_jahr |->
             Add(energiekosteneinsparung, co2_abgabe_einsparung)]))))

berechne_jaehrliche_einsparung(sanierung, alte_heizung, alter_verbrauch_kwh, energiepreise, co2_abgabe_chf_pro_t) ==
    Wert(Get(energiepreise, alte_heizung, Rat(12, 100)), LAMBDA alter_preis :
    Wert(Mul(alter_verbrauch_kwh, alter_preis), LAMBDA alte_kosten :
    IF "neue_heizung" \notin DOMAIN sanierung
       /\ "energieeinsparung_kwh_jahr" \notin DOMAIN sanierung
       /\ "eigenverbrauch_kwh" \in DOMAIN sanierung
    THEN Wert(Mul(sanierung["eigenverbrauch_kwh"], Get(energiepreise, "Strom", Rat(25, 100))),
              LAMBDA einsparung_chf :
             [alte_energiekosten_chf |-> R(0),
              neue_energiekosten_chf |-> R(0),
              energiekosteneinsparung_chf |-> einsparung_chf,
              co2_abgabe_einsparung_chf |-> R(0),
              gesamteinsparung_chf_jahr |-> einsparung_chf])
    ELSE
    Wert2(IF "neue_heizung" \in DOMAIN sanierung
          THEN Mul(Get(sanierung, "neuer_verbrauch_kwh", alter_verbrauch_kwh),
                   Get(energiepreise, sanierung["neue_heizung"], Rat(12, 100)))
          ELSE IF "energieeinsparung_kwh_jahr" \in DOMAIN sanierung
          THEN Mul(Max(R(0), Sub(alter_verbrauch_kwh, sanierung["energieeinsparung_kwh_jahr"])),
                   alter_preis)
          ELSE alte_kosten,
          Mul(Div(Get(sanierung, "co2_einsparung_kg_jahr", R(0)), R(1000)),
              co2_abgabe_chf_pro_t),
          LAMBDA neue_kosten, co2_abgabe_einsparung :
    Wert(Sub(alte_kosten, neue_kosten), LAMBDA energiekosteneinsparung :
        [alte_energiekosten_chf |-> alte_kosten,
         neue_energiekosten_chf |-> neue_kosten,
         energiekosteneinsparung_chf |-> energiekosteneinsparung,
         co2_abgabe_einsparung_chf |-> co2_abgabe_einsparung,
         gesamteinsparung_chf_jahr |->
             Add(energiekosteneinsparung, co2_abgabe_einsparung)]))))

\* Divides unless the savings are negative.
berechne_amortisation_nur_negativ(netto_investition, jaehrliche_einsparung) ==
    IF Lt(jaehrliche_einsparung, R(0)) THEN Inf
    ELSE Div(netto_investition, jaehrliche_einsparung)

berechne_amortisation(netto_investition, jaehrliche_einsparung) ==
    IF Leq(jaehrliche_einsparung, R(0)) THEN Inf
    ELSE Div(netto_investition, jaehrliche_einsparung)

\* One more factor (1 + prozent / 100) on a power kept in units of 1/PotenzRaster.
Potenz(potenz, prozent) == MulDiv(potenz, 100 * prozent.d + prozent.n, 100 * prozent.d)

\* The yearly value compounded with the discount rate instead of discounted.
Jahresschritt_aufgezinst(z) ==
    Wert2(z, <<Potenz(z.pg, z.g), Potenz(z.pr, z.r)>>, LAMBDA alt, p :
        [alt EXCEPT !.summe = @ + MulDiv(MulDiv(alt.save, p[1], PotenzRaster), p[2], PotenzRaster),
                    !.pg = p[1], !.pr = p[2]])

\* One pass of the body of a loop over the years: z.summe grows by the value
\* of the year, save * (1 + g) ** jahr / (1 + r) ** jahr, in Rappen.
Jahresschritt(z) ==
    Wert2(z, <<Potenz(z.pg, z.g), Potenz(z.pr, z.r)>>, LAMBDA alt, p :
        [alt EXCEPT !.summe = @ + MulDiv(alt.save, p[1], p[2]), !.pg = p[1], !.pr = p[2]])

RECURSIVE Schleife(_, _)
\* for jahr in range(n): z = Jahresschritt(z)
Schleife(z, n) ==
    IF n = 0 THEN z
    ELSE IF n = 1 THEN Jahresschritt(z)
    ELSE Wert2(Schleife(z, n \div 2), n - n \div 2, LAMBDA m, rest : Schleife(m, rest))

\* The loop run over NPV_ZEITRAUM_JAHRE years whatever the horizon passed.
BarwertSumme_fester_zeitraum(save0, zeitraum, r, g) ==
    Schleife([summe |-> 0, save |-> save0, g |-> g, r |-> r,
              pg |-> PotenzRaster, pr |-> PotenzRaster], NPV_ZEITRAUM_JAHRE).summe

\* The loop of berechne_npv over the years 1..zeitraum, in Rappen.
BarwertSumme(save0, zeitraum, r, g) ==
    Schleife([summe |-> 0, save |-> save0, g |-> g, r |-> r,
              pg |-> PotenzRaster, pr |-> PotenzRaster], zeitraum).summe

berechne_npv(netto_investition, jaehrliche_einsparung, zeitraum_jahre, diskontierungssatz, preissteigerung) ==
    \* npv += barwert with save0 = nan
    IF jaehrliche_einsparung = NaN
    THEN IF zeitraum_jahre >= 1 THEN Add(Neg(netto_investition), NaN)
         ELSE Neg(netto_investition)
    ELSE
    Wert2(Rappen(jaehrliche_einsparung), <<diskontierungssatz, preissteigerung>>, LAMBDA save0, rg :
        Add(Neg(netto_investition),
            Rat(BarwertSumme(save0, zeitraum_jahre, rg[1], rg[2]), 100)))

\* The ratio without the test of the net investment.
berechne_roi_ungeprueft(netto_investition, jaehrliche_einsparung) ==
    Mul(Div(jaehrliche_einsparung, netto_investition), R(100))

berechne_roi(netto_investition, jaehrliche_einsparung) ==
    IF Leq(netto_investition, R(0)) THEN R(0)
    ELSE Mul(Div(jaehrliche_einsparung, netto_investition), R(100))

berechne_roi_lebensdauer(netto_investition, jaehrliche_einsparung, zeitraum_jahre) ==
    IF Leq(netto_investition, R(0)) THEN R(0)
    ELSE Wert(Mul(jaehrliche_einsparung, R(zeitraum_jahre)), LAMBDA gesamtertrag :
             Mul(Div(Sub(gesamtertrag, netto_investition), netto_investition), R(100)))

\* sum(save * (1 + PREISSTEIGERUNG_PROZENT / 100) ** j for j in 1..zeitraum),
\* in Rappen: the yearly values are not discounted.
Gesamtertrag(save, zeitraum) ==
    Schleife([summe |-> 0, save |-> save, g |-> PREISSTEIGERUNG_PROZENT, r |-> R(0),
              pg |-> PotenzRaster, pr |-> PotenzRaster], zeitraum).summe

\* The year-0 row with the investment as a positive cash flow.
Jahr0_positiv(netto_inv) ==
    [jahr |-> 0, cashflow_chf |-> netto_inv, cashflow_kumuliert_chf |-> netto_inv]

\* jahr == 0: cf = -netto_inv, kum = cf
Jahr0(netto_inv) ==
    [jahr |-> 0, cashflow_chf |-> Neg(netto_inv), cashflow_kumuliert_chf |-> Neg(netto_inv)]

\* One pass of the loop of erstelle_cashflow_tabelle for a year >= 1:
\* z.potenz is (1 + PREISSTEIGERUNG_PROZENT / 100) ** (jahr - 1) in units of
\* 1/PotenzRaster, z.save the annual saving in Rappen.
Cashflowschritt(z) ==
    Wert2(Potenz(z.potenz, PREISSTEIGERUNG_PROZENT), z.tabelle[Len(z.tabelle)], LAMBDA p, letzte :
        Wert(IF z.nan THEN NaN ELSE Rat(MulDiv(z.save, p, PotenzRaster), 100), LAMBDA cf :
            [z EXCEPT !.potenz = p,
                      !.tabelle = Append(@, [jahr |-> letzte.jahr + 1, cashflow_chf |-> cf,
                                             cashflow_kumuliert_chf |->
                                                 Add(letzte.cashflow_kumuliert_chf, cf)])]))

RECURSIVE Cashflowschleife(_, _)
\* for jahr in jahre[1:]: z = Cashflowschritt(z)
Cashflowschleife(z, n) ==
    IF n <= 0 THEN z
    ELSE IF n = 1 THEN Cashflowschritt(z)
    ELSE Wert2(Cashflowschleife(z, n \div 2), n - n \div 2, LAMBDA m, rest :
             Cashflowschleife(m, rest))

\* The rows of the frame with the columns jahr, cashflow_chf and
\* cashflow_kumuliert_chf.
erstelle_cashflow_tabelle(sanierung, jaehrliche_einsparung, zeitraum_jahre) ==
    Cashflowschleife([tabelle |-> <<Jahr0(_get_netto_investition(sanierung))>>,
                      potenz |-> PotenzRaster,
                      nan |-> jaehrliche_einsparung = NaN,
                      save |-> IF jaehrliche_einsparung = NaN THEN 0
                               ELSE Rappen(jaehrliche_einsparung)],
                     IF zeitraum_jahre \in Int THEN zeitraum_jahre
                     ELSE Get(sanierung, "lebensdauer_jahre", NPV_ZEITRAUM_JAHRE)).tabelle

wirtschaftlichkeitsanalyse(sanierung, gebaeude) ==
    Wert2(berechne_jaehrliche_einsparung(
              sanierung, Get(gebaeude, "heizung_typ", "Gas"),
              Get(gebaeude, "jahresverbrauch_kwh", R(0)),
              modul.ENERGIEPREISE, CO2_ABGABE_CHF_PRO_T),
          _get_netto_investition(sanierung),
          LAMBDA einsparungen, netto_inv :
    Wert2(einsparungen["gesamteinsparung_chf_jahr"],
          Get(sanierung, "lebensdauer_jahre", NPV_ZEITRAUM_JAHRE),
          LAMBDA jaehrliche_einsparung, zeitraum :
    Wert(IF jaehrliche_einsparung = NaN
         THEN IF zeitraum >= 1 THEN NaN ELSE R(0)
         ELSE Rat(Gesamtertrag(Rappen(jaehrliche_einsparung), zeitraum), 100),
         LAMBDA gesamtertrag :
    Wert([investition_netto_chf |-> netto_inv,
          amortisation_jahre |-> berechne_amortisation(netto_inv, jaehrliche_einsparung),
          npv_chf |-> berechne_npv(netto_inv, jaehrliche_einsparung, zeitraum,
                                   DISKONTIERUNGSSATZ, PREISSTEIGERUNG_PROZENT),
          npv_zeitraum_jahre |-> zeitraum,
          diskontierungssatz_prozent |-> DISKONTIERUNGSSATZ,
          preissteigerung_prozent |-> PREISSTEIGERUNG_PROZENT,
          roi_prozent |-> berechne_roi(netto_inv, jaehrliche_einsparung),
          roi_lebensdauer_prozent |->
              berechne_roi_lebensdauer(netto_inv, jaehrliche_einsparung, zeitraum),
          gesamtertrag_chf |-> gesamtertrag,
          nettogewinn_chf |-> Sub(gesamtertrag, netto_inv),
          cashflow_tabelle |->
              erstelle_cashflow_tabelle(sanierung, jaehrliche_einsparung, zeitraum),
          jaehrliche_einsparung_chf |-> jaehrliche_einsparung],
         LAMBDA out :
        \* a ZeroDivisionError raised by one of the calls leaves the function
        IF ZeroDivisionError \in {out.amortisation_jahre, out.npv_chf, out.roi_prozent,
                                  out.roi_lebensdauer_prozent}
        THEN [fehler |-> "ZeroDivisionError"]
        ELSE out @@ einsparungen @@ sanierung))))

----------------------------------------------------------------------------
(* empfehlungen.py *)

\* The weights used when gewichtung is None.
Standardgewichtung ==
    [co2_effizienz |-> Rat(35, 100), amortisation |-> Rat(25, 100),
     npv |-> Rat(20, 100), co2_absolut |-> Rat(20, 100)]

\* scores["amortisation"]
AmortisationScore(amort) ==
    IF Lt(amort, Inf) THEN Max(R(0), Sub(R(100), Mul(Sub(amort, R(5)), R(4))))
    ELSE R(0)

\* The dict scores of berechne_prioritaets_score.
Teilscores(sanierung) ==
    Wert2(Get(sanierung, "investition_netto_chf", R(1)),
          Get(sanierung, "co2_einsparung_kg_jahr", R(0)), LAMBDA inv, co2 :
        [co2_effizienz |->
             IF Lt(R(0), inv)
             THEN Min(Mul(Div(Mul(co2, R(Get(sanierung, "lebensdauer_jahre", 20))), inv),
                          R(10)), R(100))
             ELSE R(0),
         amortisation |-> AmortisationScore(Get(sanierung, "amortisation_jahre", Inf)),
         npv |->
             IF Lt(R(0), inv)
             THEN Min(Max(Mul(Div(Get(sanierung, "npv_chf", R(0)), inv), R(100)), R(0)), R(100))
             ELSE R(0),
         co2_absolut |-> Min(Mul(Div(co2, R(1000)), R(5)), R(100))])

RECURSIVE Stellen(_, _, _)
\* The first k decimal digits of r / d (0 <= r < d) as a number.
Stellen(r, d, k) ==
    IF k = 0 THEN 0
    ELSE Wert(Stellen((10 * r) % d, d, k - 1), LAMBDA rest :
             IF k = 1 THEN (10 * r) \div d
             ELSE IF k = 2 THEN 10 * ((10 * r) \div d) + rest
             ELSE 100 * ((10 * r) \div d) + rest)

\* floor(x * 1000): a score or a weight in thousandths.
Tausendstel(x) == Wert(x, LAMBDA a : 1000 * (a.n \div a.d) + Stellen(a.n % a.d, a.d, 3))

\* sum(scores[k] * gewichtung[k] for k in gewichtung.keys()); the parts and
\* the weights are kept to thousandths, rounded down.
berechne_prioritaets_score(sanierung, gewichtung) ==
    Wert2(Teilscores(sanierung),
          IF gewichtung = None THEN Standardgewichtung ELSE gewichtung, LAMBDA scores, g :
        Rat(Tausendstel(scores.co2_effizienz) * Tausendstel(g.co2_effizienz)
            + Tausendstel(scores.amortisation) * Tausendstel(g.amortisation)
            + Tausendstel(scores.npv) * Tausendstel(g.npv)
            + Tausendstel(scores.co2_absolut) * Tausendstel(g.co2_absolut), 1000000))

\* The columns of strings. The nan of such a column is written "nan": used
\* as a dict key it is none of the keys of ENERGIEPREISE.
Textspalten == {"sanierung_id", "name", "kategorie", "neue_heizung", "gebaeude_id"}

\* pd.DataFrame(liste) of a list of dicts: one row per dict, the columns are
\* the keys of all dicts, a missing key is NaN.
DataFrame(liste) ==
    [i \in DOMAIN liste |->
        [k \in UNION {DOMAIN liste[j] : j \in DOMAIN liste} |->
            IF k \in DOMAIN liste[i] THEN liste[i][k]
            ELSE IF k \in Textspalten THEN "nan" ELSE NaN]]

Sortierspalte(kriterium) ==
    IF kriterium = "score" THEN "prioritaets_score"
    ELSE IF kriterium = "co2" THEN "co2_einsparung_kg_jahr"
    ELSE IF kriterium = "roi" THEN "roi_prozent"
    ELSE IF kriterium = "amortisation" THEN "amortisation_jahre"
    ELSE "npv_chf"

RECURSIVE Ordnungen_aufsteigend(_, _, _)
\* The orders that sort ascending whatever the direction asked for.
Ordnungen_aufsteigend(rest, schluessel, ascending) ==
    IF rest = {} THEN {<<>>}
    ELSE UNION {{<<i>> \o o : o \in Ordnungen_aufsteigend(rest \ {i}, schluessel, ascending)} :
                i \in {j \in rest : \A k \in rest : ~Lt(schluessel[k], schluessel[j])}}

RECURSIVE Ordnungen(_, _, _)
\* df.sort_values(column, ascending=...): the row orders the call can return.
\* It sorts with kind="quicksort", which fixes no order among equal keys.
Ordnungen(rest, schluessel, ascending) ==
    IF rest = {} THEN {<<>>}
    ELSE UNION {{<<i>> \o o : o \in Ordnungen(rest \ {i}, schluessel, ascending)} :
                i \in {j \in rest : \A k \in rest :
                          IF ascending THEN ~Lt(schluessel[k], schluessel[j])
                          ELSE ~Lt(schluessel[j], schluessel[k])}}

\* san["prioritaets_score"] = berechne_prioritaets_score(san, gewichtung) for
\* every dict of the list: the list as the call leaves it.
MitScore(sanierungen, gewichtung) ==
    [i \in DOMAIN sanierungen |->
        ("prioritaets_score" :> berechne_prioritaets_score(sanierungen[i], gewichtung))
        @@ sanierungen[i]]

\* The frames priorisiere_sanierungen can return: the rows in a sorted order
\* with rang = 1..n; an unknown kriterium leaves the rows in input order.
priorisiere_sanierungen(sanierungen, kriterium, gewichtung) ==
    LET frame == DataFrame(MitScore(sanierungen, gewichtung))
    IN {[i \in DOMAIN frame |-> ("rang" :> i) @@ frame[o[i]]] :
           o \in IF kriterium \in {"score", "co2", "roi", "amortisation", "npv"}
                 THEN Ordnungen(DOMAIN frame,
                                [i \in DOMAIN frame |-> frame[i][Sortierspalte(kriterium)]],
                                kriterium = "amortisation")
                 ELSE {[i \in DOMAIN frame |-> i]}}

----------------------------------------------------------------------------
(* Inputs: the CSV file read by main() *)

\* Rows of one input frame (the first row is drawn from the full product of
\* values, further rows from Zusatzzeilen).
MaxZeilen == 2

\* Direct calls of the KPI functions recorded in one run.
MaxAufrufe == 2

HeizungTypen ==
    {"Gas", "Oel", "Fernwaerme", "Waermepumpe", "Pellets", "Solar", "Default",
     "Unbekannt", "Fehlende Angabe"}

VerbrauchWerte == {-10000, 0, 10000, 600000}

StromWerte == {-5000, 0, 5000}

FlaecheWerte == {-50, 0, 100, 1000}

\* A row of a frame without the optional column flaeche_m2.
ZeileOhneFlaeche(id, jahr, typ, verbrauch, strom) ==
    [gebaeude_id |-> id, jahr |-> jahr, heizung_typ |-> typ,
     jahresverbrauch_kwh |-> R(verbrauch), strom_kwh_jahr |-> R(strom)]

Zeile(id, jahr, typ, verbrauch, strom, flaeche) ==
    ("flaeche_m2" :> R(flaeche)) @@ ZeileOhneFlaeche(id, jahr, typ, verbrauch, strom)

Hauptzeilen ==
    {ZeileOhneFlaeche("A", 2024, t, v, s) :
        t \in HeizungTypen, v \in VerbrauchWerte, s \in StromWerte}
    \cup {Zeile("A", 2024, t, v, s, f) :
        t \in HeizungTypen, v \in VerbrauchWerte, s \in StromWerte, f \in FlaecheWerte}

Zusatzzeilen ==
    {Zeile("B", 2024, "Gas", 10000, 5000, 100),
     Zeile("B", 2023, "Oel", -10000, 5000, 100),
     Zeile("B", 2024, "Unbekannt", 600000, 0, 0)}

Ohne(zeile, spalten) == [k \in DOMAIN zeile \ spalten |-> zeile[k]]

RECURSIVE Zeilenfolgen(_)
Zeilenfolgen(k) ==
    IF k <= 1 THEN {<<h>> : h \in Hauptzeilen}
    ELSE Zeilenfolgen(k - 1)
         \cup {Append(f, IF "flaeche_m2" \in DOMAIN f[1] THEN z ELSE Ohne(z, {"flaeche_m2"})) :
                 f \in Zeilenfolgen(k - 1), z \in Zusatzzeilen}

Frame(zeilen) == [spalten |-> DOMAIN zeilen[1], zeilen |-> zeilen]

\* Files that lack required columns.
FehlendeSpalten ==
    {{"gebaeude_id"}, {"jahr"}, {"heizung_typ"}, {"jahresverbrauch_kwh"},
     {"strom_kwh_jahr"}, {"heizung_typ", "strom_kwh_jahr"},
     {"jahr", "heizung_typ", "jahresverbrauch_kwh", "strom_kwh_jahr"}}

UnvollstaendigeFrames ==
    {Frame(<<Ohne(z, c)>>) : z \in Zusatzzeilen, c \in FehlendeSpalten}

Eingaben == {Frame(f) : f \in Zeilenfolgen(MaxZeilen)} \cup UnvollstaendigeFrames

LeererFrame == [spalten |-> {}, zeilen |-> <<>>]

----------------------------------------------------------------------------
(* main.py *)

kritische_fehler(meldungen) ==
    SelectSeq(meldungen, LAMBDA f : Enthaelt("Fehlende", f) \/ Enthaelt("Negative", f))

RECURSIVE MaxJahr(_)
MaxJahr(zeilen) ==
    IF Len(zeilen) = 1 THEN zeilen[1]["jahr"]
    ELSE LET m == MaxJahr(Tail(zeilen))
         IN IF zeilen[1]["jahr"] > m THEN zeilen[1]["jahr"] ELSE m

\* df_mit_emissionen[df_mit_emissionen["jahr"] == df["jahr"].max()]
df_aktuell ==
    SelectSeq(df_mit_emissionen, LAMBDA z : z["jahr"] = MaxJahr(df.zeilen))

Bewerte(liste, gebaeude) ==
    [i \in DOMAIN liste |->
        LET san_wirtschaft == wirtschaftlichkeitsanalyse(liste[i], gebaeude)
        IN IF "fehler" \in DOMAIN san_wirtschaft THEN san_wirtschaft
           ELSE ("gebaeude_id" :> gebaeude["gebaeude_id"]) @@ san_wirtschaft]

Init ==
    /\ df \in Eingaben
    /\ pc = "validierung"
    /\ fehler = <<>>
    /\ df_mit_emissionen = <<>>
    /\ position = 0
    /\ szenarien = <<>>
    /\ kombinationen = <<>>
    /\ alle_sanierungen = <<>>
    /\ aufrufe = <<>>
    /\ eingabe = <<>>
    /\ modul = Modul
    /\ laeufe = <<>>

\* main, step 2: fehler = validiere_eingabedaten(df)
Validiere ==
    /\ pc = "validierung"
    /\ fehler' = validiere_eingabedaten(df)
    /\ pc' = "validiert"
    /\ UNCHANGED <<df, df_mit_emissionen, position, szenarien, kombinationen,
                   alle_sanierungen, aufrufe, eingabe, modul, laeufe>>

\* main, step 2: sys.exit(1) on a critical message
Abbruch ==
    /\ pc = "validiert"
    /\ kritische_fehler(fehler) # <<>>
    /\ pc' = "abbruch"
    /\ UNCHANGED <<df, fehler, df_mit_emissionen, position, szenarien, kombinationen,
                   alle_sanierungen, aufrufe, eingabe, modul, laeufe>>

\* main, step 3
BerechneEmissionen ==
    /\ pc = "validiert"
    /\ kritische_fehler(fehler) = <<>>
    /\ df_mit_emissionen' = berechne_emissionen(df.zeilen)
    /\ position' = 1
    /\ pc' = "szenarien"
    /\ UNCHANGED <<df, fehler, szenarien, kombinationen, alle_sanierungen, aufrufe, eingabe, modul, laeufe>>

\* main, step 5: one iteration of the loop over df_aktuell
BearbeiteGebaeude ==
    /\ pc = "szenarien"
    /\ position <= Len(df_aktuell)
    /\ \E gebaeude \in {df_aktuell[position]} :
       \E szen \in {erstelle_alle_szenarien(gebaeude, KBOB_FAKTOREN)} :
       \E kombis \in {erstelle_kombinationsszenarien(gebaeude, KBOB_FAKTOREN)} :
       \E bewertet \in {Bewerte(szen, gebaeude) \o Bewerte(kombis, gebaeude)} :
          /\ szenarien' = szen
          /\ kombinationen' = kombis
          /\ IF \E i \in DOMAIN bewertet : "fehler" \in DOMAIN bewertet[i]
             THEN /\ pc' = "absturz"
                  /\ UNCHANGED <<alle_sanierungen, position>>
             ELSE /\ alle_sanierungen' = alle_sanierungen \o bewertet
                  /\ position' = position + 1
                  /\ pc' = pc
    /\ UNCHANGED <<df, fehler, df_mit_emissionen, aufrufe, eingabe, modul, laeufe>>

\* main, after the loop
Abschluss ==
    /\ pc = "szenarien"
    /\ position > Len(df_aktuell)
    /\ pc' = "fertig"
    /\ UNCHANGED <<df, fehler, df_mit_emissionen, position, szenarien, kombinationen,
                   alle_sanierungen, aufrufe, eingabe, modul, laeufe>>

Next == Validiere \/ Abbruch \/ BerechneEmissionen \/ BearbeiteGebaeude \/ Abschluss

Spec == Init /\ [][Next]_vars

----------------------------------------------------------------------------
(* Direct calls of berechne_amortisation *)

NettoWerte == {R(0), R(39000), R(50000)}

SaveWerte == {R(-500), R(0), R(1), R(4000), R(8000), Rat(30976, 35)}

InitKpi ==
    /\ df = LeererFrame
    /\ pc = "bibliothek"
    /\ fehler = <<>>
    /\ df_mit_emissionen = <<>>
    /\ position = 0
    /\ szenarien = <<>>
    /\ kombinationen = <<>>
    /\ alle_sanierungen = <<>>
    /\ aufrufe = <<>>
    /\ eingabe = <<>>
    /\ modul = Modul
    /\ laeufe = <<>>

RufeAmortisation ==
    /\ pc = "bibliothek"
    /\ Len(aufrufe) < MaxAufrufe
    /\ \E netto \in NettoWerte, save \in SaveWerte :
          aufrufe' = Append(aufrufe,
              [netto_investition |-> netto, jaehrliche_einsparung |-> save,
               ergebnis |-> berechne_amortisation(netto, save)])
    /\ UNCHANGED <<df, pc, fehler, df_mit_emissionen, position, szenarien,
                   kombinationen, alle_sanierungen, eingabe, modul, laeufe>>

NextKpi == RufeAmortisation

SpecKpi == InitKpi /\ [][NextKpi]_vars

----------------------------------------------------------------------------
(* Direct calls of berechne_npv and of wirtschaftlichkeitsanalyse on a       *)
(* scenario written by hand.  The arguments other than the discount rate are *)
(* fixed for the run; amounts are whole Rappen.                              *)

NpvNettoWerte == {R(0), R(50000)}

NpvSaveWerte == {R(-500), Rat(123456, 100), R(4000)}

ZeitraumWerte == {0, 1, 25}

SteigerungWerte == {R(0), Rat(25, 10)}

DiskontWerte == {R(0), R(2), Rat(25, 10), R(5)}

InitNpv ==
    /\ df = LeererFrame
    /\ pc = "bibliothek"
    /\ fehler = <<>>
    /\ df_mit_emissionen = <<>>
    /\ position = 0
    /\ szenarien = <<>>
    /\ kombinationen = <<>>
    /\ alle_sanierungen = <<>>
    /\ aufrufe = <<>>
    /\ eingabe \in [netto_investition : NpvNettoWerte, jaehrliche_einsparung : NpvSaveWerte,
                    zeitraum_jahre : ZeitraumWerte, preissteigerung : SteigerungWerte]
    /\ modul = Modul
    /\ laeufe = <<>>

\* berechne_npv(netto, save, zeitraum, diskontierungssatz, preissteigerung)
RufeNpv ==
    /\ pc = "bibliothek"
    /\ Len(aufrufe) < MaxAufrufe
    /\ \E diskontierungssatz \in DiskontWerte :
          aufrufe' = Append(aufrufe,
              [funktion |-> "berechne_npv", diskontierungssatz |-> diskontierungssatz,
               ergebnis |-> berechne_npv(eingabe.netto_investition, eingabe.jaehrliche_einsparung,
                                         eingabe.zeitraum_jahre, diskontierungssatz,
                                         eingabe.preissteigerung)])
    /\ UNCHANGED <<df, pc, fehler, df_mit_emissionen, position, szenarien,
                   kombinationen, alle_sanierungen, eingabe, modul, laeufe>>

\* A scenario without shape keys: its savings are the CO2 levy on co2_einsparung_kg_jahr.
Handszenario(mit_lebensdauer) ==
    (IF mit_lebensdauer THEN "lebensdauer_jahre" :> eingabe.zeitraum_jahre ELSE <<>>) @@
    [name |-> "Massnahme", investition_netto_chf |-> eingabe.netto_investition,
     co2_einsparung_kg_jahr |-> Div(Mul(eingabe.jaehrliche_einsparung, R(1000)),
                                    CO2_ABGABE_CHF_PRO_T)]

\* wirtschaftlichkeitsanalyse(sanierung, gebaeude) on a scenario with or
\* without lebensdauer_jahre
RufeAnalyse ==
    /\ pc = "bibliothek"
    /\ Len(aufrufe) < MaxAufrufe
    /\ \E mit_lebensdauer \in BOOLEAN :
          aufrufe' = Append(aufrufe,
              [funktion |-> "wirtschaftlichkeitsanalyse",
               sanierung |-> Handszenario(mit_lebensdauer),
               ergebnis |-> wirtschaftlichkeitsanalyse(
                                Handszenario(mit_lebensdauer),
                                [gebaeude_id |-> "G1", heizung_typ |-> "Gas",
                                 jahresverbrauch_kwh |-> R(10000)])])
    /\ UNCHANGED <<df, pc, fehler, df_mit_emissionen, position, szenarien,
                   kombinationen, alle_sanierungen, eingabe, modul, laeufe>>

NextNpv == RufeNpv \/ RufeAnalyse

SpecNpv == InitNpv /\ [][NextNpv]_vars

----------------------------------------------------------------------------
(* sensitivitaetsanalyse: one call per thread at a time, one pass of the    *)
(* loop over variationen in two steps (the scaling statement, then the KPI  *)
(* computation and the append).                                             *)

\* int(x) of a number: the fraction is cut off.
int(x) == IF x.n >= 0 THEN x.n \div x.d ELSE -((-x.n) \div x.d)

\* The number shown by the format {f:.1f}: f rounded to tenths, ties to even.
Gerundet1(f) ==
    Wert2((10 * f.n) \div f.d, Sub(Mul(f, R(10)), R((10 * f.n) \div f.d)), LAMBDA q, rest :
        IF Lt(Rat(1, 2), rest) \/ (rest = Rat(1, 2) /\ q % 2 = 1)
        THEN Rat(q + 1, 10) ELSE Rat(q, 10))

\* variationen = [0.8, 0.9, 1.0, 1.1, 1.2, 1.5, 2.0] when the caller passes None
StandardVariationen ==
    <<Rat(8, 10), Rat(9, 10), R(1), Rat(11, 10), Rat(12, 10), Rat(15, 10), R(2)>>

\* The subsidy scaling with the net investment left unclamped.
Skalierung_netto_unbegrenzt(sanierung, parameter, f) ==
    Wert2(_get_brutto_investition(sanierung),
          Mul(Get(sanierung, "foerderung_chf", R(0)), f), LAMBDA base_brutto, foerderung :
        [modul |-> modul,
         san_kopie |-> [foerderung_chf |-> foerderung,
                        investition_brutto_chf |-> base_brutto,
                        investition_netto_chf |-> Sub(base_brutto, foerderung)]
                       @@ sanierung,
         energiepreise |-> [art |-> "global"],
         co2_abgabe |-> modul.CO2_ABGABE_CHF_PRO_T])

\* The scaling that writes the scaled prices into the module's table and
\* hands that table on.
Skalierung_preise_global(sanierung, parameter, f) ==
    IF parameter \in {"co2_abgabe", "foerderung"}
    THEN [modul |-> modul, san_kopie |-> sanierung,
          energiepreise |-> [art |-> "global"],
          co2_abgabe |-> IF parameter = "co2_abgabe"
                         THEN Mul(modul.CO2_ABGABE_CHF_PRO_T, f)
                         ELSE modul.CO2_ABGABE_CHF_PRO_T]
    ELSE [modul |-> [modul EXCEPT !.ENERGIEPREISE =
                        [k \in DOMAIN modul.ENERGIEPREISE |-> Mul(modul.ENERGIEPREISE[k], f)]],
          san_kopie |-> sanierung,
          energiepreise |-> [art |-> "global"],
          co2_abgabe |-> modul.CO2_ABGABE_CHF_PRO_T]

\* The scaling that assigns the scaled levy to the module's global.
Skalierung_abgabe_global(sanierung, parameter, f) ==
    IF parameter = "co2_abgabe"
    THEN [modul |-> [modul EXCEPT !.CO2_ABGABE_CHF_PRO_T = Mul(modul.CO2_ABGABE_CHF_PRO_T, f)],
          san_kopie |-> sanierung,
          energiepreise |-> [art |-> "global"],
          co2_abgabe |-> Mul(modul.CO2_ABGABE_CHF_PRO_T, f)]
    ELSE [modul |-> modul, san_kopie |-> sanierung,
          energiepreise |-> IF parameter = "foerderung" THEN [art |-> "global"]
                             ELSE [art |-> "lokal", tabelle |->
                                   [k \in DOMAIN modul.ENERGIEPREISE |->
                                       Mul(modul.ENERGIEPREISE[k], f)]],
          co2_abgabe |-> modul.CO2_ABGABE_CHF_PRO_T]

\* The first statements of one pass: san_kopie = dict(sanierung) and the
\* scaled value of the branch.  The result holds the locals of the pass and
\* the module namespace as the statements leave it.  energiepreise is either
\* a dict of its own or the module's dict object.
Skalierung(sanierung, parameter, f) ==
    IF parameter = "co2_abgabe"
    THEN [modul |-> modul, san_kopie |-> sanierung,
          energiepreise |-> [art |-> "global"],
          co2_abgabe |-> Mul(modul.CO2_ABGABE_CHF_PRO_T, f)]
    ELSE IF parameter = "foerderung"
    THEN Wert2(_get_brutto_investition(sanierung),
               Mul(Get(sanierung, "foerderung_chf", R(0)), f), LAMBDA base_brutto, foerderung :
             [modul |-> modul,
              san_kopie |-> [foerderung_chf |-> foerderung,
                             investition_brutto_chf |-> base_brutto,
                             investition_netto_chf |-> Max(R(0), Sub(base_brutto, foerderung))]
                            @@ sanierung,
              energiepreise |-> [art |-> "global"],
              co2_abgabe |-> modul.CO2_ABGABE_CHF_PRO_T])
    ELSE [modul |-> modul, san_kopie |-> sanierung,
          energiepreise |-> [art |-> "lokal", tabelle |->
                             [k \in DOMAIN modul.ENERGIEPREISE |-> Mul(modul.ENERGIEPREISE[k], f)]],
          co2_abgabe |-> modul.CO2_ABGABE_CHF_PRO_T]

\* The KPI part of a pass that takes NPV_ZEITRAUM_JAHRE as the horizon.
KennzahlenZeile_fester_zeitraum(lokal, netto, jaehr) ==
    [amortisation_jahre |-> berechne_amortisation(netto, jaehr),
     npv_chf |-> berechne_npv(netto, jaehr, NPV_ZEITRAUM_JAHRE,
                              DISKONTIERUNGSSATZ, PREISSTEIGERUNG_PROZENT),
     roi_prozent |-> berechne_roi(netto, jaehr),
     jaehrliche_einsparung_chf |-> jaehr]

\* amort, npv, roi of a pass of the branches energiepreis, co2_abgabe, else
KennzahlenZeile(lokal, netto, jaehr) ==
    [amortisation_jahre |-> berechne_amortisation(netto, jaehr),
     npv_chf |-> berechne_npv(netto, jaehr,
                              Get(lokal.san_kopie, "lebensdauer_jahre", NPV_ZEITRAUM_JAHRE),
                              DISKONTIERUNGSSATZ, PREISSTEIGERUNG_PROZENT),
     roi_prozent |-> berechne_roi(netto, jaehr),
     jaehrliche_einsparung_chf |-> jaehr]

\* The rest of one pass: the row appended to ergebnisse, or the exception.
Sweepzeile(lokal, gebaeude, parameter, f) ==
    IF parameter = "foerderung"
    THEN Wert(wirtschaftlichkeitsanalyse(lokal.san_kopie, gebaeude), LAMBDA analyse :
             IF "fehler" \in DOMAIN analyse THEN analyse
             ELSE [szenario |-> [text |-> "Foerderung", zahl |-> Gerundet1(f)],
                   faktor |-> f,
                   amortisation_jahre |-> analyse["amortisation_jahre"],
                   npv_chf |-> analyse["npv_chf"],
                   roi_prozent |-> analyse["roi_prozent"],
                   jaehrliche_einsparung_chf |-> analyse["jaehrliche_einsparung_chf"]])
    ELSE Wert(KennzahlenZeile(
                  lokal, _get_netto_investition(lokal.san_kopie),
                  berechne_jaehrliche_einsparung(
                      lokal.san_kopie, Get(gebaeude, "heizung_typ", "Gas"),
                      Get(gebaeude, "jahresverbrauch_kwh", R(0)),
                      IF lokal.energiepreise.art = "global" THEN modul.ENERGIEPREISE
                      ELSE lokal.energiepreise.tabelle,
                      lokal.co2_abgabe)["gesamteinsparung_chf_jahr"]),
              LAMBDA kpi :
             IF ZeroDivisionError \in {kpi.amortisation_jahre, kpi.npv_chf, kpi.roi_prozent}
             THEN [fehler |-> "ZeroDivisionError"]
             ELSE [szenario |-> IF parameter = "energiepreis"
                                THEN [text |-> "Energiepreis", zahl |-> Gerundet1(f)]
                                ELSE IF parameter = "co2_abgabe"
                                THEN [text |-> "CO2-Abgabe", zahl |-> R(int(lokal.co2_abgabe))]
                                ELSE [text |-> "Variation", zahl |-> Gerundet1(f)],
                   faktor |-> f] @@ kpi)

SweepParameter == {"energiepreis", "co2_abgabe", "foerderung", "zins"}

SweepVariationen == {<<R(1)>>, <<Rat(8, 10), R(2)>>}

\* Buildings handed to the sweeps and to the catalog.
SweepGebaeude ==
    {Zeile("A", 2024, "Gas", 10000, 5000, 100), Zeile("A", 2024, "Unbekannt", 600000, 5000, 100)}

AlleGebaeude ==
    {Zeile("A", 2024, t, v, 5000, 100) : t \in HeizungTypen, v \in {0, 10000, 600000}}

\* A building with one of its catalog or combination scenarios.
Paare(gebaeude_menge) ==
    UNION {{[gebaeude |-> g, sanierung |-> s] :
               s \in Bereich(erstelle_alle_szenarien(g, KBOB_FAKTOREN))
                     \cup Bereich(erstelle_kombinationsszenarien(g, KBOB_FAKTOREN))} :
           g \in gebaeude_menge}

Ruhe(rest) == [zustand |-> "ruhe", rest |-> rest]

InitBibliothek ==
    /\ df = LeererFrame
    /\ pc = "bibliothek"
    /\ fehler = <<>>
    /\ df_mit_emissionen = <<>>
    /\ position = 0
    /\ szenarien = <<>>
    /\ kombinationen = <<>>
    /\ alle_sanierungen = <<>>
    /\ aufrufe = <<>>
    /\ modul = Modul

\* One caller that runs up to MaxAufrufe sweeps one after the other.
InitSweep ==
    /\ InitBibliothek
    /\ eingabe \in Paare(SweepGebaeude)
    /\ laeufe = <<Ruhe(MaxAufrufe)>>

\* Two threads that run one sweep each.
InitParallel ==
    /\ InitBibliothek
    /\ eingabe \in Paare(SweepGebaeude)
    /\ laeufe = <<Ruhe(1), Ruhe(1)>>

\* The dashboard's call for one scenario of one building.
InitNeutral ==
    /\ InitBibliothek
    /\ eingabe \in Paare(AlleGebaeude)
    /\ laeufe = <<Ruhe(1)>>

Beginne(t, parameter, variationen) ==
    /\ laeufe[t].zustand = "ruhe"
    /\ laeufe[t].rest > 0
    /\ laeufe' = [laeufe EXCEPT ![t] =
          [zustand |-> "schleife", rest |-> laeufe[t].rest - 1, parameter |-> parameter,
           variationen |-> variationen, i |-> 1, lokal |-> <<>>, ergebnisse |-> <<>>]]
    /\ UNCHANGED <<df, pc, fehler, df_mit_emissionen, position, szenarien,
                   kombinationen, alle_sanierungen, aufrufe, eingabe, modul>>

\* sensitivitaetsanalyse(sanierung, gebaeude, parameter, variationen)
RufeSweep(t) ==
    \E parameter \in SweepParameter, variationen \in SweepVariationen :
        Beginne(t, parameter, variationen)

\* sensitivitaetsanalyse(top, g, parameter): variationen is None
RufeSweepStandard(t) ==
    \E parameter \in {"energiepreis", "co2_abgabe", "foerderung"} :
        Beginne(t, parameter, StandardVariationen)

\* for faktor in variationen: the copy and the scaling of the branch
Skaliere(t) ==
    /\ laeufe[t].zustand = "schleife"
    /\ laeufe[t].i <= Len(laeufe[t].variationen)
    /\ \E s \in {Skalierung(eingabe.sanierung, laeufe[t].parameter,
                            laeufe[t].variationen[laeufe[t].i])} :
          /\ modul' = s.modul
          /\ laeufe' = [laeufe EXCEPT ![t].zustand = "skaliert", ![t].lokal = s]
    /\ UNCHANGED <<df, pc, fehler, df_mit_emissionen, position, szenarien,
                   kombinationen, alle_sanierungen, aufrufe, eingabe>>

\* the KPI computation of the pass and ergebnisse.append(...); an exception
\* ends the call
Bewerte_Zeile(t) ==
    /\ laeufe[t].zustand = "skaliert"
    /\ \E zeile \in {Sweepzeile(laeufe[t].lokal, eingabe.gebaeude, laeufe[t].parameter,
                                laeufe[t].variationen[laeufe[t].i])} :
          IF "fehler" \in DOMAIN zeile
          THEN /\ aufrufe' = Append(aufrufe,
                      [funktion |-> "sensitivitaetsanalyse", thread |-> t,
                       parameter |-> laeufe[t].parameter,
                       variationen |-> laeufe[t].variationen, fehler |-> zeile.fehler])
               /\ laeufe' = [laeufe EXCEPT ![t] = Ruhe(laeufe[t].rest)]
          ELSE /\ laeufe' = [laeufe EXCEPT ![t].zustand = "schleife",
                                           ![t].i = @ + 1,
                                           ![t].ergebnisse = Append(@, zeile)]
               /\ UNCHANGED aufrufe
    /\ UNCHANGED <<df, pc, fehler, df_mit_emissionen, position, szenarien,
                   kombinationen, alle_sanierungen, eingabe, modul>>

\* return pd.DataFrame(ergebnisse)
Rueckgabe(t) ==
    /\ laeufe[t].zustand = "schleife"
    /\ laeufe[t].i > Len(laeufe[t].variationen)
    /\ aufrufe' = Append(aufrufe,
          [funktion |-> "sensitivitaetsanalyse", thread |-> t,
           parameter |-> laeufe[t].parameter, variationen |-> laeufe[t].variationen,
           zeilen |-> laeufe[t].ergebnisse])
    /\ laeufe' = [laeufe EXCEPT ![t] = Ruhe(laeufe[t].rest)]
    /\ UNCHANGED <<df, pc, fehler, df_mit_emissionen, position, szenarien,
                   kombinationen, alle_sanierungen, eingabe, modul>>

NextSweep ==
    \E t \in DOMAIN laeufe : RufeSweep(t) \/ Skaliere(t) \/ Bewerte_Zeile(t) \/ Rueckgabe(t)

NextNeutral ==
    \E t \in DOMAIN laeufe :
        RufeSweepStandard(t) \/ Skaliere(t) \/ Bewerte_Zeile(t) \/ Rueckgabe(t)

SpecSweep == InitSweep /\ [][NextSweep]_vars

SpecParallel == InitParallel /\ [][NextSweep]_vars

SpecNeutral == InitNeutral /\ [][NextNeutral]_vars

----------------------------------------------------------------------------
(* Direct calls of priorisiere_sanierungen on the evaluated scenarios of one *)
(* building or of two buildings, and on its own result.                      *)

RangGebaeude ==
    {Zeile("A", 2024, t, v, 5000, f) :
        t \in {"Gas", "Oel", "Fernwaerme", "Unbekannt"}, v \in {10000, 600000},
        f \in {0, 100}}
    \cup {Zeile("A", 2024, t, 0, 5000, 0) : t \in {"Gas", "Fernwaerme"}}

\* The evaluated catalog and combination scenarios main() appends to
\* alle_sanierungen for one building.
Szenarienliste(g) ==
    Bewerte(erstelle_alle_szenarien(g, KBOB_FAKTOREN)
            \o erstelle_kombinationsszenarien(g, KBOB_FAKTOREN), g)

Ranglisten ==
    {Szenarienliste(g) : g \in RangGebaeude}
    \cup {Szenarienliste(Zeile("A", 2024, "Fernwaerme", 10000, 5000, f))
          \o Szenarienliste(Zeile("B", 2024, "Fernwaerme", 10000, 5000, f)) : f \in {0, 100}}

Kriterien == {"score", "co2", "roi", "amortisation", "npv"}

InitRang ==
    /\ InitBibliothek
    /\ eingabe \in {[sanierungen |-> l] : l \in Ranglisten}
    /\ laeufe = <<>>

\* priorisiere_sanierungen(szen, kriterium): the call also writes the score
\* into the dicts of the caller's list
Priorisiere ==
    /\ pc = "bibliothek"
    /\ aufrufe = <<>>
    /\ \E kriterium \in Kriterien :
       \E ergebnis \in priorisiere_sanierungen(eingabe.sanierungen, kriterium, None) :
          /\ aufrufe' = <<[funktion |-> "priorisiere_sanierungen", kriterium |-> kriterium,
                           sanierungen |-> eingabe.sanierungen, ergebnis |-> ergebnis]>>
          /\ eingabe' = [eingabe EXCEPT !.sanierungen = MitScore(@, None)]
    /\ UNCHANGED <<df, pc, fehler, df_mit_emissionen, position, szenarien,
                   kombinationen, alle_sanierungen, modul, laeufe>>

\* priorisiere_sanierungen(df.to_dict("records"), kriterium) on the frame
\* the first call returned, with the same kriterium
PriorisiereErneut ==
    /\ pc = "bibliothek"
    /\ Len(aufrufe) = 1
    /\ \E ergebnis \in priorisiere_sanierungen(aufrufe[1].ergebnis, aufrufe[1].kriterium, None) :
          aufrufe' = Append(aufrufe,
              [funktion |-> "priorisiere_sanierungen", kriterium |-> aufrufe[1].kriterium,
               sanierungen |-> aufrufe[1].ergebnis, ergebnis |-> ergebnis])
    /\ UNCHANGED <<df, pc, fehler, df_mit_emissionen, position, szenarien,
                   kombinationen, alle_sanierungen, eingabe, modul, laeufe>>

NextRang == Priorisiere \/ PriorisiereErneut

SpecRang == InitRang /\ [][NextRang]_vars

----------------------------------------------------------------------------
(* portfolio_optimierung(gebaeude_liste, budget_chf, emissionsfaktoren): the *)
(* options are collected and sorted, the loop takes one row per step, and    *)
(* the summary is returned.                                                  *)

RECURSIVE Optionen(_, _, _)
\* alle_optionen: the evaluated catalog scenarios of every building, each
\* with gebaeude_id and prioritaets_score
Optionen(gebaeude_liste, emissionsfaktoren, k) ==
    IF k > Len(gebaeude_liste) THEN <<>>
    ELSE LET geb == gebaeude_liste[k]
             liste == erstelle_alle_szenarien(geb, emissionsfaktoren)
         IN [i \in DOMAIN liste |->
                LET san_wirtschaft == ("gebaeude_id" :> geb["gebaeude_id"])
                                      @@ wirtschaftlichkeitsanalyse(liste[i], geb)
                IN ("prioritaets_score" :> berechne_prioritaets_score(san_wirtschaft, None))
                   @@ san_wirtschaft]
             \o Optionen(gebaeude_liste, emissionsfaktoren, k + 1)

\* The sorted frames df the call can loop over.
SortierteOptionen(gebaeude_liste, emissionsfaktoren) ==
    LET frame == DataFrame(Optionen(gebaeude_liste, emissionsfaktoren, 1))
    IN {[i \in DOMAIN frame |-> frame[o[i]]] :
           o \in Ordnungen(DOMAIN frame,
                           [i \in DOMAIN frame |-> frame[i]["prioritaets_score"]], FALSE)}

\* The dict the call returns for the selected rows, or the exception of
\* gesamt_inv / budget_chf.
Zusammenfassung(ausgewaehlte, restbudget, budget_chf) ==
    IF ausgewaehlte # <<>>
    THEN IF budget_chf = R(0) THEN ZeroDivisionError
         ELSE [anzahl_massnahmen |-> Len(ausgewaehlte),
               massnahmen |-> ausgewaehlte,
               gesamt_investition_chf |-> Summe(ausgewaehlte, "investition_netto_chf", 1),
               verbleibendes_budget_chf |-> restbudget,
               gesamt_co2_reduktion_t_jahr |->
                   Div(Summe(ausgewaehlte, "co2_einsparung_kg_jahr", 1), R(1000)),
               budget_ausnutzung_prozent |->
                   Mul(Div(Summe(ausgewaehlte, "investition_netto_chf", 1), budget_chf), R(100))]
    ELSE [anzahl_massnahmen |-> 0,
          massnahmen |-> <<>>,
          gesamt_investition_chf |-> R(0),
          verbleibendes_budget_chf |-> budget_chf,
          gesamt_co2_reduktion_t_jahr |-> R(0),
          budget_ausnutzung_prozent |-> R(0)]

PortfolioGebaeude(id) ==
    {Zeile(id, 2024, "Gas", 10000, 5000, 100), Zeile(id, 2024, "Oel", 600000, 5000, 100),
     Zeile(id, 2024, "Fernwaerme", 10000, 5000, 0)}

Gebaeudelisten ==
    {<<a>> : a \in PortfolioGebaeude("A")}
    \cup {<<a, b>> : a \in PortfolioGebaeude("A"), b \in PortfolioGebaeude("B")}

Budgets == {R(0), R(30000), R(100000), R(500000)}

InitPortfolio ==
    /\ InitBibliothek
    /\ eingabe \in {[gebaeude_liste |-> l, budget_chf |-> b] : l \in Gebaeudelisten, b \in Budgets}
    /\ laeufe = <<>>

\* Entry of the call up to the loop: df is sorted, nothing is selected
Sammle ==
    /\ pc = "bibliothek"
    /\ aufrufe = <<>>
    /\ laeufe = <<>>
    /\ \E sortiert \in SortierteOptionen(eingabe.gebaeude_liste, KBOB_FAKTOREN) :
          laeufe' = <<[df |-> sortiert, position |-> 1, ausgewaehlte |-> <<>>,
                       restbudget |-> eingabe.budget_chf]>>
    /\ UNCHANGED <<df, pc, fehler, df_mit_emissionen, position, szenarien,
                   kombinationen, alle_sanierungen, aufrufe, eingabe, modul>>

\* One iteration of for idx, row in df.iterrows()
Waehle ==
    /\ pc = "bibliothek"
    /\ laeufe # <<>>
    /\ laeufe[1].position <= Len(laeufe[1].df)
    /\ LET row == laeufe[1].df[laeufe[1].position]
           inv == row["investition_netto_chf"]
       IN laeufe' = <<[laeufe[1] EXCEPT
              !.position = @ + 1,
              !.ausgewaehlte = IF Leq(inv, laeufe[1].restbudget) THEN Append(@, row) ELSE @,
              !.restbudget = IF Leq(inv, laeufe[1].restbudget) THEN Sub(@, inv) ELSE @]>>
    /\ UNCHANGED <<df, pc, fehler, df_mit_emissionen, position, szenarien,
                   kombinationen, alle_sanierungen, aufrufe, eingabe, modul>>

\* The summary after the loop and the return
Fasse_zusammen ==
    /\ pc = "bibliothek"
    /\ laeufe # <<>>
    /\ laeufe[1].position > Len(laeufe[1].df)
    /\ aufrufe' = <<[funktion |-> "portfolio_optimierung",
                     budget_chf |-> eingabe.budget_chf,
                     df |-> laeufe[1].df,
                     ergebnis |-> Zusammenfassung(laeufe[1].ausgewaehlte, laeufe[1].restbudget,
                                                  eingabe.budget_chf)]>>
    /\ laeufe' = <<>>
    /\ UNCHANGED <<df, pc, fehler, df_mit_emissionen, position, szenarien,
                   kombinationen, alle_sanierungen, eingabe, modul>>

NextPortfolio == Sammle \/ Waehle \/ Fasse_zusammen

SpecPortfolio == InitPortfolio /\ [][NextPortfolio]_vars

----------------------------------------------------------------------------
(* Subsidy sweeps of one scenario of one building, with multipliers from 0  *)
(* to far beyond the point where the subsidy covers the investment.         *)

FoerderVariationen == {<<R(0), R(1), R(10)>>, StandardVariationen}

InitFoerderung ==
    /\ InitBibliothek
    /\ eingabe \in Paare(AlleGebaeude)
    /\ laeufe = <<Ruhe(1)>>

\* sensitivitaetsanalyse(sanierung, gebaeude, "foerderung", variationen)
RufeFoerderung(t) ==
    \E variationen \in FoerderVariationen : Beginne(t, "foerderung", variationen)

NextFoerderung ==
    \E t \in DOMAIN laeufe :
        RufeFoerderung(t) \/ Skaliere(t) \/ Bewerte_Zeile(t) \/ Rueckgabe(t)

SpecFoerderung == InitFoerderung /\ [][NextFoerderung]_vars

----------------------------------------------------------------------------
(* Direct calls of berechne_daemmung, erstelle_alle_szenarien and            *)
(* erstelle_kombinationsszenarien on one building, with and without the      *)
(* column flaeche_m2.                                                        *)

KatalogGebaeude ==
    {ZeileOhneFlaeche("A", 2024, t, 10000, 5000) : t \in HeizungTypen}
    \cup {Zeile("A", 2024, t, 10000, 5000, f) : t \in HeizungTypen, f \in FlaecheWerte}

InitKatalog ==
    /\ InitBibliothek
    /\ eingabe \in {[gebaeude |-> g] : g \in KatalogGebaeude}
    /\ laeufe = <<>>

\* berechne_daemmung(gebaeude, sanierung_id, KBOB_FAKTOREN): the scenario or
\* the exception
RufeDaemmung ==
    /\ pc = "bibliothek"
    /\ Len(aufrufe) < MaxAufrufe
    /\ \E sanierung_id \in {"daemmung_fassade", "daemmung_dach", "fenster"} :
          aufrufe' = Append(aufrufe,
              [funktion |-> "berechne_daemmung", sanierung_id |-> sanierung_id,
               ergebnis |-> berechne_daemmung(eingabe.gebaeude, sanierung_id, KBOB_FAKTOREN)])
    /\ UNCHANGED <<df, pc, fehler, df_mit_emissionen, position, szenarien,
                   kombinationen, alle_sanierungen, eingabe, modul, laeufe>>

\* erstelle_alle_szenarien(gebaeude, KBOB_FAKTOREN)
RufeSzenarien ==
    /\ pc = "bibliothek"
    /\ Len(aufrufe) < MaxAufrufe
    /\ aufrufe' = Append(aufrufe,
          [funktion |-> "erstelle_alle_szenarien",
           ergebnis |-> erstelle_alle_szenarien(eingabe.gebaeude, KBOB_FAKTOREN)])
    /\ UNCHANGED <<df, pc, fehler, df_mit_emissionen, position, szenarien,
                   kombinationen, alle_sanierungen, eingabe, modul, laeufe>>

\* erstelle_kombinationsszenarien(gebaeude, KBOB_FAKTOREN)
RufeKombinationen ==
    /\ pc = "bibliothek"
    /\ Len(aufrufe) < MaxAufrufe
    /\ aufrufe' = Append(aufrufe,
          [funktion |-> "erstelle_kombinationsszenarien",
           ergebnis |-> erstelle_kombinationsszenarien(eingabe.gebaeude, KBOB_FAKTOREN)])
    /\ UNCHANGED <<df, pc, fehler, df_mit_emissionen, position, szenarien,
                   kombinationen, alle_sanierungen, eingabe, modul, laeufe>>

NextKatalog == RufeDaemmung \/ RufeSzenarien \/ RufeKombinationen

SpecKatalog == InitKatalog /\ [][NextKatalog]_vars

----------------------------------------------------------------------------
(* portfolio.py: optimiere_sanierungsreihenfolge(df, emissionsfaktoren,      *)
(* budget_pro_jahr_chf, jahre), one round of its loop per step.              *)

RECURSIVE Auswahl(_, _, _)
\* The loop of portfolio_optimierung over the rows k.. of the sorted frame.
Auswahl(zeilen, k, z) ==
    IF k > Len(zeilen) THEN z
    ELSE Auswahl(zeilen, k + 1,
                 IF Leq(zeilen[k]["investition_netto_chf"], z.restbudget)
                 THEN [ausgewaehlte |-> Append(z.ausgewaehlte, zeilen[k]),
                       restbudget |-> Sub(z.restbudget, zeilen[k]["investition_netto_chf"])]
                 ELSE z)

\* The results a call of portfolio_optimierung can return or raise.
portfolio_optimierung(gebaeude_liste, budget_chf, emissionsfaktoren) ==
    {Wert(Auswahl(sortiert, 1, [ausgewaehlte |-> <<>>, restbudget |-> budget_chf]), LAMBDA z :
         Zusammenfassung(z.ausgewaehlte, z.restbudget, budget_chf)) :
        sortiert \in SortierteOptionen(gebaeude_liste, emissionsfaktoren)}

\* [g for g in restliche_gebaeude if g["gebaeude_id"] not in sanierte_ids]
OhneSanierte(gebaeude, massnahmen) ==
    SelectSeq(gebaeude, LAMBDA g :
        g["gebaeude_id"] \notin {massnahmen[i]["gebaeude_id"] : i \in DOMAIN massnahmen})

\* The dict optimiere_sanierungsreihenfolge returns.
Optimierungsplan(z) ==
    [planungshorizont_jahre |-> eingabe.jahre,
     budget_pro_jahr_chf |-> z.budget_pro_jahr_chf,
     jahresplaene |-> z.jahresplaene,
     gesamt_emissionsreduktion_t_jahr |-> z.gesamt_emissionsreduktion,
     gesamt_investition_chf |-> z.gesamt_investition,
     anzahl_sanierte_gebaeude |-> Len(eingabe.df) - Len(z.restliche_gebaeude),
     anzahl_verbleibende_gebaeude |-> Len(z.restliche_gebaeude)]

Planlisten ==
    Gebaeudelisten
    \cup {<<Zeile("A", 2023, "Gas", 10000, 5000, 100), Zeile("A", 2024, "Gas", 10000, 5000, 100),
           Zeile("B", 2024, "Fernwaerme", 10000, 5000, 100)>>}

Jahresbudgets == {None, R(0), R(15000), R(100000)}

Planungshorizonte == {0, 1, 2, 3}

InitReihenfolge ==
    /\ InitBibliothek
    /\ eingabe \in {[df |-> l, budget_pro_jahr_chf |-> b, jahre |-> j] :
                       l \in Planlisten, b \in Jahresbudgets, j \in Planungshorizonte}
    /\ laeufe = <<>>

\* Entry of the call up to the loop
BeginnePlan ==
    /\ pc = "bibliothek"
    /\ aufrufe = <<>>
    /\ laeufe = <<>>
    /\ laeufe' = <<[jahr |-> 1,
                    budget_pro_jahr_chf |-> IF eingabe.budget_pro_jahr_chf = None THEN Inf
                                            ELSE eingabe.budget_pro_jahr_chf,
                    jahresplaene |-> <<>>,
                    restliche_gebaeude |-> eingabe.df,
                    gesamt_emissionsreduktion |-> R(0),
                    gesamt_investition |-> R(0)]>>
    /\ UNCHANGED <<df, pc, fehler, df_mit_emissionen, position, szenarien,
                   kombinationen, alle_sanierungen, aufrufe, eingabe, modul>>

\* One pass of for jahr in range(1, jahre + 1) with buildings left: the
\* exception of portfolio_optimierung ends the call, a round without
\* measures breaks and returns, any other round is added to the plan
Runde ==
    /\ pc = "bibliothek"
    /\ laeufe # <<>>
    /\ laeufe[1].jahr <= eingabe.jahre
    /\ laeufe[1].restliche_gebaeude # <<>>
    /\ \E optimierung \in portfolio_optimierung(laeufe[1].restliche_gebaeude,
                                                laeufe[1].budget_pro_jahr_chf, KBOB_FAKTOREN) :
          IF optimierung = ZeroDivisionError
          THEN /\ aufrufe' = <<[funktion |-> "optimiere_sanierungsreihenfolge",
                                fehler |-> "ZeroDivisionError",
                                restliche_gebaeude |-> laeufe[1].restliche_gebaeude]>>
               /\ laeufe' = <<>>
          ELSE IF optimierung.anzahl_massnahmen = 0
          THEN /\ aufrufe' = <<[funktion |-> "optimiere_sanierungsreihenfolge",
                                ergebnis |-> Optimierungsplan(laeufe[1]),
                                restliche_gebaeude |-> laeufe[1].restliche_gebaeude]>>
               /\ laeufe' = <<>>
          ELSE /\ laeufe' = <<[laeufe[1] EXCEPT
                      !.jahr = @ + 1,
                      !.restliche_gebaeude = OhneSanierte(@, optimierung.massnahmen),
                      !.gesamt_emissionsreduktion =
                          Add(@, optimierung.gesamt_co2_reduktion_t_jahr),
                      !.gesamt_investition = Add(@, optimierung.gesamt_investition_chf),
                      !.jahresplaene = Append(@,
                          [jahr |-> laeufe[1].jahr,
                           anzahl_massnahmen |-> optimierung.anzahl_massnahmen,
                           investition_chf |-> optimierung.gesamt_investition_chf,
                           co2_reduktion_t |-> optimierung.gesamt_co2_reduktion_t_jahr,
                           massnahmen |-> optimierung.massnahmen])]>>
               /\ UNCHANGED aufrufe
    /\ UNCHANGED <<df, pc, fehler, df_mit_emissionen, position, szenarien,
                   kombinationen, alle_sanierungen, eingabe, modul>>

\* The loop is exhausted or no building is left: return
PlanRueckgabe ==
    /\ pc = "bibliothek"
    /\ laeufe # <<>>
    /\ laeufe[1].jahr > eingabe.jahre \/ laeufe[1].restliche_gebaeude = <<>>
    /\ aufrufe' = <<[funktion |-> "optimiere_sanierungsreihenfolge",
                     ergebnis |-> Optimierungsplan(laeufe[1]),
                     restliche_gebaeude |-> laeufe[1].restliche_gebaeude]>>
    /\ laeufe' = <<>>
    /\ UNCHANGED <<df, pc, fehler, df_mit_emissionen, position, szenarien,
                   kombinationen, alle_sanierungen, eingabe, modul>>

NextReihenfolge == BeginnePlan \/ Runde \/ PlanRueckgabe

SpecReihenfolge == InitReihenfolge /\ [][NextReihenfolge]_vars

----------------------------------------------------------------------------
(* The building page of the dashboard: the scenarios of the building are    *)
(* evaluated and ranked by score, the table is filtered, and the first row  *)
(* of the filtered table is handed to sensitivitaetsanalyse as a dict.      *)

SeitenGebaeude ==
    {Zeile("A", 2024, t, v, 5000, f) :
        t \in {"Gas", "Oel", "Fernwaerme"}, v \in {10000, 600000}, f \in {0, 100}}

\* st.session_state.max_inv: 100_000 at first, the slider runs from 0 to
\* 2_000_000.
MaxInvestitionen == {R(0), R(100000), R(2000000)}

\* szen = [wirtschaftlichkeitsanalyse(s, g) for s in szen]
Seitenszenarien(g) ==
    Wert(erstelle_alle_szenarien(g, KBOB_FAKTOREN)
         \o erstelle_kombinationsszenarien(g, KBOB_FAKTOREN), LAMBDA szen :
        [i \in DOMAIN szen |-> wirtschaftlichkeitsanalyse(szen[i], g)])

\* f = szen_df.copy() after the two filters of the sidebar.
Gefiltert(szen_df, kategorie_filter, max_inv) ==
    SelectSeq(szen_df, LAMBDA zeile :
        /\ kategorie_filter = {} \/ zeile["kategorie"] \in kategorie_filter
        /\ Leq(zeile["investition_netto_chf"], max_inv))

InitSeite ==
    /\ InitBibliothek
    /\ eingabe \in {[gebaeude |-> g] : g \in SeitenGebaeude}
    /\ laeufe = <<[zustand |-> "seite", rest |-> 1]>>

\* page_gebaeude up to top = f.iloc[0].to_dict(); an exception of an
\* evaluation and an empty filtered table end the page
Empfehle ==
    /\ laeufe[1].zustand = "seite"
    /\ \E szen \in {Seitenszenarien(eingabe.gebaeude)} :
          IF \E i \in DOMAIN szen : "fehler" \in DOMAIN szen[i]
          THEN /\ laeufe' = <<[zustand |-> "absturz", rest |-> 0]>>
               /\ UNCHANGED eingabe
          ELSE \E szen_df \in priorisiere_sanierungen(szen, "score", None) :
               \E kategorie_filter \in SUBSET {szen_df[i]["kategorie"] : i \in DOMAIN szen_df} :
               \E max_inv \in MaxInvestitionen :
               \E f \in {Gefiltert(szen_df, kategorie_filter, max_inv)} :
                  IF Len(f) > 0
                  THEN /\ eingabe' = [gebaeude |-> eingabe.gebaeude, sanierung |-> f[1]]
                       /\ laeufe' = <<Ruhe(1)>>
                  ELSE /\ laeufe' = <<[zustand |-> "leer", rest |-> 0]>>
                       /\ UNCHANGED eingabe
    /\ UNCHANGED <<df, pc, fehler, df_mit_emissionen, position, szenarien,
                   kombinationen, alle_sanierungen, aufrufe, modul>>

NextSeite ==
    \/ Empfehle
    \/ \E t \in DOMAIN laeufe :
          RufeSweepStandard(t) \/ Skaliere(t) \/ Bewerte_Zeile(t) \/ Rueckgabe(t)

SpecSeite == InitSeite /\ [][NextSeite]_vars

----------------------------------------------------------------------------
(* Direct calls of berechne_portfolio_szenarien on a frame with the         *)
(* emission columns, for each documented value of szenario.                 *)

\* The body of the loop over df.iterrows() for one building: the
\* accumulators after it, or the exception of an evaluation.
Szenarioschritt(gebaeude, emissionsfaktoren, szenario, z) ==
    IF szenario # "fossil_zu_wp" THEN z
    ELSE IF gebaeude["heizung_typ"] \in {"Gas", "Oel"}
    THEN Wert(berechne_heizungsersatz(gebaeude,
                                      IF gebaeude["heizung_typ"] = "Gas"
                                      THEN "heizung_gas_zu_wp" ELSE "heizung_oel_zu_wp",
                                      emissionsfaktoren), LAMBDA san :
             IF "fehler" \in DOMAIN wirtschaftlichkeitsanalyse(san, gebaeude)
             THEN [fehler |-> "ZeroDivisionError"]
             ELSE [massnahmen |->
                       Append(z.massnahmen,
                              [gebaeude_id |-> gebaeude["gebaeude_id"],
                               massnahme |-> san["name"],
                               investition_netto_chf |-> san["investition_netto_chf"],
                               co2_einsparung_kg |-> san["co2_einsparung_kg_jahr"]]),
                   gesamt_investition |->
                       Add(z.gesamt_investition, san["investition_brutto_chf"]),
                   gesamt_foerderung |-> Add(z.gesamt_foerderung, san["foerderung_chf"]),
                   neue_emissionen |->
                       Add(z.neue_emissionen,
                           Sub(gebaeude["emissionen_gesamt_kg"], san["co2_einsparung_kg_jahr"]))])
    ELSE [z EXCEPT !.neue_emissionen = Add(@, gebaeude["emissionen_gesamt_kg"])]

RECURSIVE Szenarioschleife(_, _, _, _, _)
\* for idx, gebaeude in df.iterrows(), from the k-th row on
Szenarioschleife(zeilen, emissionsfaktoren, szenario, k, z) ==
    IF k > Len(zeilen) \/ "fehler" \in DOMAIN z THEN z
    ELSE Szenarioschleife(zeilen, emissionsfaktoren, szenario, k + 1,
                          Szenarioschritt(zeilen[k], emissionsfaktoren, szenario, z))

berechne_portfolio_szenarien(zeilen, emissionsfaktoren, szenario) ==
    Wert2(Summe(zeilen, "emissionen_gesamt_t", 1),
          Szenarioschleife(zeilen, emissionsfaktoren, szenario, 1,
                           [massnahmen |-> <<>>, gesamt_investition |-> R(0),
                            gesamt_foerderung |-> R(0), neue_emissionen |-> R(0)]),
          LAMBDA ist_emissionen, z :
        IF "fehler" \in DOMAIN z THEN z
        ELSE Wert(Div(z.neue_emissionen, R(1000)), LAMBDA neue_emissionen_t :
                 Wert(Sub(ist_emissionen, neue_emissionen_t), LAMBDA einsparung_t :
                     [szenario |-> szenario,
                      anzahl_massnahmen |-> Len(z.massnahmen),
                      massnahmen |-> z.massnahmen,
                      ist_emissionen_t |-> ist_emissionen,
                      neue_emissionen_t |-> neue_emissionen_t,
                      einsparung_t_jahr |-> einsparung_t,
                      einsparung_prozent |->
                          IF Lt(R(0), ist_emissionen)
                          THEN Mul(Div(einsparung_t, ist_emissionen), R(100))
                          ELSE R(0),
                      gesamt_investition_brutto_chf |-> z.gesamt_investition,
                      gesamt_foerderung_chf |-> z.gesamt_foerderung,
                      gesamt_investition_netto_chf |->
                          Sub(z.gesamt_investition, z.gesamt_foerderung)])))

\* The values of szenario the docstring lists.
Portfolioszenarien == {"fossil_zu_wp", "alle_minergie", "netto_null"}

SzenarioGebaeude(id) ==
    {Zeile(id, 2024, t, v, 5000, 100) :
        t \in {"Gas", "Oel", "Fernwaerme"}, v \in {0, 10000, 600000}}

SzenarioFrames ==
    {berechne_emissionen(<<a>>) : a \in SzenarioGebaeude("A")}
    \cup {berechne_emissionen(<<a, b>>) :
             a \in SzenarioGebaeude("A"), b \in SzenarioGebaeude("B")}

InitSzenarien ==
    /\ InitBibliothek
    /\ eingabe \in {[df |-> d] : d \in SzenarioFrames}
    /\ laeufe = <<>>

\* berechne_portfolio_szenarien(df, KBOB_FAKTOREN, szenario): the dict or the
\* exception
RufePortfolioszenario ==
    /\ pc = "bibliothek"
    /\ Len(aufrufe) < MaxAufrufe
    /\ \E szenario \in Portfolioszenarien :
          aufrufe' = Append(aufrufe,
              [funktion |-> "berechne_portfolio_szenarien", szenario |-> szenario,
               ergebnis |-> berechne_portfolio_szenarien(eingabe.df, KBOB_FAKTOREN, szenario)])
    /\ UNCHANGED <<df, pc, fehler, df_mit_emissionen, position, szenarien,
                   kombinationen, alle_sanierungen, eingabe, modul, laeufe>>

NextSzenarien == RufePortfolioszenario

SpecSzenarien == InitSzenarien /\ [][NextSzenarien]_vars

----------------------------------------------------------------------------
(* Properties *)

Abgeschlossen(i) == pc \in {"szenarien", "fertig"} /\ position > i

\* The building of the last completed loop iteration and its evaluated records.
letztes_gebaeude == df_aktuell[position - 1]

letzte_bewertete ==
    SubSeq(alle_sanierungen,
           Len(alle_sanierungen) - Len(szenarien) - Len(kombinationen) + 1,
           Len(alle_sanierungen))

Floor(x) == x.n \div x.d

\* C1: every input row gets emissionen_heizen_kg = consumption x factor, the
\* factor being the table entry of the row's heating type or else the
\* table's Default; emissionen_strom_kg = electricity x 0.122; the total is
\* their sum and emissionen_gesamt_t is the total / 1000.  An unknown type
\* yields a row like any other (10000 kWh gas, 5000 kWh: 2280 + 610 = 2890).
C1_Emissionen ==
    pc \in {"szenarien", "fertig"} =>
        /\ Len(df_mit_emissionen) = Len(df.zeilen)
        /\ \A i \in DOMAIN df_mit_emissionen :
            LET z == df.zeilen[i]
                e == df_mit_emissionen[i]
                faktor == IF z["heizung_typ"] \in DOMAIN KBOB_FAKTOREN
                          THEN KBOB_FAKTOREN[z["heizung_typ"]]
                          ELSE KBOB_FAKTOREN["Default"]
            IN /\ e["emissionen_heizen_kg"] = Mul(z["jahresverbrauch_kwh"], faktor)
               /\ e["emissionen_strom_kg"] = Mul(z["strom_kwh_jahr"], Rat(122, 1000))
               /\ e["emissionen_gesamt_kg"] =
                      Add(e["emissionen_heizen_kg"], e["emissionen_strom_kg"])
               /\ Mul(e["emissionen_gesamt_t"], R(1000)) = e["emissionen_gesamt_kg"]
               /\ (z["heizung_typ"] = "Gas" /\ z["jahresverbrauch_kwh"] = R(10000)
                   /\ z["strom_kwh_jahr"] = R(5000)) =>
                      /\ e["emissionen_heizen_kg"] = R(2280)
                      /\ e["emissionen_strom_kg"] = R(610)
                      /\ e["emissionen_gesamt_kg"] = R(2890)

C1_Witness ==
    /\ pc = "szenarien"
    /\ \E i \in DOMAIN df_mit_emissionen :
          /\ df.zeilen[i]["heizung_typ"] = "Unbekannt"
          /\ df.zeilen[i]["jahresverbrauch_kwh"] = R(10000)
          /\ df_mit_emissionen[i]["emissionen_heizen_kg"] = R(500)

SpaltenVollstaendig == Bereich(required_cols) \subseteq df.spalten

Blockierend(f) == f.text \in {"Fehlende Spalten: ", "Negative Werte in "}

\* C3: the emissions step and every later step is reached only if the
\* validation list holds no blocking message (missing column, negative
\* value); a list with a blocking message ends the run before any emission
\* is computed; a list holding only advisory messages (high consumption,
\* unknown heating type) never stops the run.
C3_Pipeline ==
    /\ pc \in {"szenarien", "fertig"} => \A k \in DOMAIN fehler : ~Blockierend(fehler[k])
    /\ (\E k \in DOMAIN fehler : Blockierend(fehler[k])) => df_mit_emissionen = <<>>
    /\ pc = "abbruch" => \E k \in DOMAIN fehler : Blockierend(fehler[k])

\* All catalog scenarios of the last building, the constituents of its
\* combinations included.
KatalogSzenarien ==
    Bereich(szenarien)
    \cup UNION {Bereich(kombinationen[k]["massnahmen"]) : k \in DOMAIN kombinationen}

\* C4: every catalog scenario of a building that passed the validation has
\* 0 <= foerderung_chf <= min(investition_brutto_chf, max_foerderung_chf of
\* its renovation type).
C4_Foerderung ==
    \A sz \in KatalogSzenarien :
        /\ Leq(R(0), sz["foerderung_chf"])
        /\ Leq(sz["foerderung_chf"],
               Min(sz["investition_brutto_chf"],
                   FOERDERGELDER[sz["sanierung_id"]]["max_foerderung_chf"]))

NettoKonsistent(sz) ==
    /\ sz["investition_netto_chf"] = Sub(sz["investition_brutto_chf"], sz["foerderung_chf"])
    /\ Leq(R(0), sz["investition_netto_chf"])

C6_Szenarien ==
    Abgeschlossen(1) =>
        LET g == letztes_gebaeude
            heizung == IF g["heizung_typ"] = "Gas" THEN <<"heizung_gas_zu_wp">>
                       ELSE IF g["heizung_typ"] = "Oel" THEN <<"heizung_oel_zu_wp">>
                       ELSE <<>>
            huelle == IF "flaeche_m2" \in DOMAIN g /\ g["flaeche_m2"].n > 0
                      THEN <<"daemmung_fassade", "daemmung_dach", "fenster">>
                      ELSE <<>>
        IN [i \in DOMAIN szenarien |-> szenarien[i]["sanierung_id"]]
               = heizung \o huelle \o <<"solar_pv">>

C6_Witness ==
    /\ Abgeschlossen(1)
    /\ letztes_gebaeude["heizung_typ"] = "Oel"
    /\ "flaeche_m2" \in DOMAIN letztes_gebaeude
    /\ letztes_gebaeude["flaeche_m2"] = R(0)
    /\ Len(szenarien) = 2

\* C7: a heating replacement has neuer_verbrauch_kwh = old consumption / 3.5
\* and co2_einsparung_kg_jahr = old consumption x factor(current fuel) -
\* neuer_verbrauch_kwh x factor(Waermepumpe); 10000 kWh of gas give about
\* 2857 kWh and about 2137 kg a year.
C7_Heizungsersatz ==
    Abgeschlossen(1) =>
        \A sz \in KatalogSzenarien :
            "neue_heizung" \in DOMAIN sz =>
                LET g == letztes_gebaeude
                    alt == g["jahresverbrauch_kwh"]
                IN /\ Mul(sz["neuer_verbrauch_kwh"], Rat(7, 2)) = alt
                   /\ sz["co2_einsparung_kg_jahr"] =
                          Sub(Mul(alt, KBOB_FAKTOREN[g["heizung_typ"]]),
                              Mul(sz["neuer_verbrauch_kwh"], KBOB_FAKTOREN["Waermepumpe"]))
                   /\ (alt = R(10000) /\ g["heizung_typ"] = "Gas") =>
                          /\ Floor(sz["neuer_verbrauch_kwh"]) = 2857
                          /\ Floor(sz["co2_einsparung_kg_jahr"]) = 2137

C7_Witness ==
    /\ Abgeschlossen(1)
    /\ letztes_gebaeude["heizung_typ"] = "Gas"
    /\ letztes_gebaeude["jahresverbrauch_kwh"] = R(10000)
    /\ szenarien[1]["neuer_verbrauch_kwh"] = Rat(20000, 7)
    /\ szenarien[1]["co2_einsparung_kg_jahr"] = Rat(14960, 7)

\* price(fuel): the table entry, 0.12 for a fuel without one
Preis(heizung) == IF heizung \in DOMAIN ENERGIEPREISE THEN ENERGIEPREISE[heizung] ELSE Rat(12, 100)

\* C8: the evaluation dispatches on the scenario shape.  Heating
\* replacement: energy savings = old consumption x price(old fuel) -
\* neuer_verbrauch_kwh x price(new fuel).  Envelope: old cost - (old
\* consumption - energieeinsparung_kwh_jahr) x price(old fuel).  PV: total
\* savings = eigenverbrauch_kwh x electricity price, CO2 tax savings 0.
\* Otherwise CO2 tax savings = co2_einsparung_kg_jahr / 1000 x 120, and
\* always gesamteinsparung_chf_jahr = energy savings + CO2 tax savings.
C8_Einsparung ==
    Abgeschlossen(1) =>
        \A k \in DOMAIN letzte_bewertete :
            LET e == letzte_bewertete[k]
                g == letztes_gebaeude
                alt == g["jahresverbrauch_kwh"]
                alte_kosten == Mul(alt, Preis(g["heizung_typ"]))
            IN /\ "neue_heizung" \in DOMAIN e =>
                      e["energiekosteneinsparung_chf"] =
                          Sub(alte_kosten,
                              Mul(e["neuer_verbrauch_kwh"], Preis(e["neue_heizung"])))
               /\ e["kategorie"] = "Gebaeudehuelle" =>
                      e["energiekosteneinsparung_chf"] =
                          Sub(alte_kosten,
                              Mul(Sub(alt, e["energieeinsparung_kwh_jahr"]),
                                  Preis(g["heizung_typ"])))
               /\ e["sanierung_id"] = "solar_pv" =>
                      /\ e["gesamteinsparung_chf_jahr"] =
                             Mul(e["eigenverbrauch_kwh"], Rat(25, 100))
                      /\ e["co2_abgabe_einsparung_chf"] = R(0)
               /\ e["sanierung_id"] # "solar_pv" =>
                      e["co2_abgabe_einsparung_chf"] =
                          Mul(Div(e["co2_einsparung_kg_jahr"], R(1000)), R(120))
               /\ e["gesamteinsparung_chf_jahr"] =
                      Add(e["energiekosteneinsparung_chf"], e["co2_abgabe_einsparung_chf"])

C8_Witness ==
    /\ Abgeschlossen(1)
    /\ Len(letzte_bewertete) = 7
    /\ letztes_gebaeude["heizung_typ"] = "Gas"
    /\ letztes_gebaeude["jahresverbrauch_kwh"] = R(10000)
    /\ letzte_bewertete[1]["gesamteinsparung_chf_jahr"] = Rat(30976, 35)
    /\ letzte_bewertete[2]["energiekosteneinsparung_chf"] = R(300)
    /\ Lt(R(0), letzte_bewertete[5]["gesamteinsparung_chf_jahr"])
    /\ Lt(R(0), letzte_bewertete[5]["co2_einsparung_kg_jahr"])

\* C9: berechne_amortisation returns net investment / annual savings when
\* the savings are > 0 and +infinity when they are <= 0; for a fixed net
\* investment >= 0 larger savings never give a larger amortisation; 50000
\* CHF at 4000 CHF a year give 12.5 years.
C9_Amortisation ==
    /\ \A i \in DOMAIN aufrufe :
          LET a == aufrufe[i]
          IN /\ a.jaehrliche_einsparung.n > 0 =>
                    /\ IstZahl(a.ergebnis)
                    /\ Mul(a.ergebnis, a.jaehrliche_einsparung) = a.netto_investition
             /\ a.jaehrliche_einsparung.n <= 0 => a.ergebnis = Inf
             /\ (a.netto_investition = R(50000) /\ a.jaehrliche_einsparung = R(4000)) =>
                    a.ergebnis = Rat(25, 2)
    /\ \A i, j \in DOMAIN aufrufe :
          (/\ aufrufe[i].netto_investition = aufrufe[j].netto_investition
           /\ Lt(aufrufe[i].jaehrliche_einsparung, aufrufe[j].jaehrliche_einsparung))
              => Leq(aufrufe[j].ergebnis, aufrufe[i].ergebnis)

C9_Witness ==
    /\ Len(aufrufe) = 2
    /\ aufrufe[1].netto_investition = R(50000)
    /\ aufrufe[2].netto_investition = R(50000)
    /\ aufrufe[1].jaehrliche_einsparung = R(4000)
    /\ aufrufe[2].jaehrliche_einsparung = R(8000)
    /\ aufrufe[1].ergebnis = Rat(25, 2)
    /\ aufrufe[2].ergebnis = Rat(25, 4)

\* C10: the evaluation never fails on an uneconomic scenario: no run ends in
\* a division error, and every evaluated record has amortisation_jahre =
\* +infinity when its annual savings are <= 0, roi_prozent = 0 when they
\* are 0, and roi_prozent = 0 when its net investment is <= 0.
C10_Total ==
    /\ pc # "absturz"
    /\ \A k \in DOMAIN alle_sanierungen :
          LET e == alle_sanierungen[k]
          IN /\ "fehler" \notin DOMAIN e
             /\ e["gesamteinsparung_chf_jahr"].n <= 0 => e["amortisation_jahre"] = Inf
             /\ e["gesamteinsparung_chf_jahr"].n = 0 => e["roi_prozent"] = R(0)
             /\ e["investition_netto_chf"].n <= 0 => e["roi_prozent"] = R(0)
             /\ IstZahl(e["npv_chf"]) /\ IstZahl(e["roi_lebensdauer_prozent"])

C10_Witness ==
    /\ pc = "fertig"
    /\ \E k \in DOMAIN alle_sanierungen :
          /\ alle_sanierungen[k]["gesamteinsparung_chf_jahr"] = R(0)
          /\ Lt(R(0), alle_sanierungen[k]["investition_netto_chf"])
          /\ alle_sanierungen[k]["amortisation_jahre"] = Inf
    /\ \E k \in DOMAIN alle_sanierungen :
          /\ alle_sanierungen[k]["investition_netto_chf"] = R(0)
          /\ Lt(alle_sanierungen[k]["gesamteinsparung_chf_jahr"], R(0))
          /\ alle_sanierungen[k]["roi_prozent"] = R(0)

----------------------------------------------------------------------------
(* Direct calls of berechne_npv *)

NpvAufrufe == {i \in DOMAIN aufrufe : aufrufe[i].funktion = "berechne_npv"}

AnalyseAufrufe == {i \in DOMAIN aufrufe : aufrufe[i].funktion = "wirtschaftlichkeitsanalyse"}

C12_Monoton ==
    \A i, j \in NpvAufrufe :
        (Lt(R(0), eingabe.jaehrliche_einsparung)
         /\ Leq(aufrufe[i].diskontierungssatz, aufrufe[j].diskontierungssatz))
        => Leq(aufrufe[j].ergebnis, aufrufe[i].ergebnis)

C12_Witness ==
    /\ eingabe # <<>>
    /\ Lt(R(0), eingabe.jaehrliche_einsparung)
    /\ eingabe.zeitraum_jahre = 25
    /\ \E i, j \in NpvAufrufe :
          /\ Lt(aufrufe[i].diskontierungssatz, aufrufe[j].diskontierungssatz)
          /\ Lt(aufrufe[j].ergebnis, aufrufe[i].ergebnis)

----------------------------------------------------------------------------
(* sensitivitaetsanalyse *)

Sweeps == {i \in DOMAIN aufrufe : aufrufe[i].funktion = "sensitivitaetsanalyse"}

\* The KPIs of the row for the multiplier f, from the values the module has
\* after import: the price table times f for an energy-price sweep, the levy
\* times f for a levy sweep, the subsidy times f for a subsidy sweep.
ZeileAllein(parameter, f) ==
    Wert2(IF parameter = "foerderung"
          THEN [foerderung_chf |-> Mul(Get(eingabe.sanierung, "foerderung_chf", R(0)), f),
                investition_brutto_chf |-> _get_brutto_investition(eingabe.sanierung),
                investition_netto_chf |->
                    Max(R(0), Sub(_get_brutto_investition(eingabe.sanierung),
                                  Mul(Get(eingabe.sanierung, "foerderung_chf", R(0)), f)))]
               @@ eingabe.sanierung
          ELSE eingabe.sanierung,
          berechne_jaehrliche_einsparung(
              eingabe.sanierung, eingabe.gebaeude["heizung_typ"],
              eingabe.gebaeude["jahresverbrauch_kwh"],
              IF parameter \in {"co2_abgabe", "foerderung"} THEN ENERGIEPREISE
              ELSE [k \in DOMAIN ENERGIEPREISE |-> Mul(ENERGIEPREISE[k], f)],
              IF parameter = "co2_abgabe" THEN Mul(CO2_ABGABE_CHF_PRO_T, f)
              ELSE CO2_ABGABE_CHF_PRO_T)["gesamteinsparung_chf_jahr"],
          LAMBDA san, jaehr :
        [faktor |-> f,
         amortisation_jahre |-> berechne_amortisation(_get_netto_investition(san), jaehr),
         npv_chf |-> berechne_npv(_get_netto_investition(san), jaehr,
                                  Get(san, "lebensdauer_jahre", 25),
                                  DISKONTIERUNGSSATZ, PREISSTEIGERUNG_PROZENT),
         roi_prozent |-> berechne_roi(_get_netto_investition(san), jaehr),
         jaehrliche_einsparung_chf |-> jaehr])

Kennzahlen(zeile) ==
    [k \in {"faktor", "amortisation_jahre", "npv_chf", "roi_prozent",
            "jaehrliche_einsparung_chf"} |-> zeile[k]]

\* The call recorded as aufrufe[i] returned the rows it returns when no other
\* call ran before it or beside it.
WieAllein(i) ==
    /\ "zeilen" \in DOMAIN aufrufe[i]
    /\ Len(aufrufe[i].zeilen) = Len(aufrufe[i].variationen)
    /\ \A k \in DOMAIN aufrufe[i].zeilen :
          Kennzahlen(aufrufe[i].zeilen[k]) =
              ZeileAllein(aufrufe[i].parameter, aufrufe[i].variationen[k])

\* C13: after any sequence of sensitivitaetsanalyse calls the module's
\* ENERGIEPREISE and CO2_ABGABE_CHF_PRO_T hold their initial values; a sweep
\* repeated on the same inputs returns identical rows, and every sweep (a
\* levy sweep after an energy-price sweep too) returns the rows computed
\* from the initial values.
C13_Globale ==
    /\ modul = Modul
    /\ \A i, j \in Sweeps :
          (aufrufe[i].parameter = aufrufe[j].parameter
           /\ aufrufe[i].variationen = aufrufe[j].variationen)
          => [aufrufe[i] EXCEPT !.thread = 0] = [aufrufe[j] EXCEPT !.thread = 0]
    /\ \A i \in Sweeps : WieAllein(i)

C13_Witness ==
    /\ Len(aufrufe) = 2
    /\ Sweeps = {1, 2}
    /\ aufrufe[1].parameter = "energiepreis"
    /\ aufrufe[2].parameter = "energiepreis"
    /\ aufrufe[1].variationen = <<Rat(8, 10), R(2)>>
    /\ aufrufe[2].variationen = <<Rat(8, 10), R(2)>>
    /\ aufrufe[1].zeilen = aufrufe[2].zeilen
    /\ aufrufe[1].zeilen[1].jaehrliche_einsparung_chf
           # aufrufe[1].zeilen[2].jaehrliche_einsparung_chf

\* The prices and the levy a pass holds after its scaling statement are the
\* initial values scaled by the multiplier of the pass itself.
EigeneSkalierung(t) ==
    LET lauf == laeufe[t]
        f == lauf.variationen[lauf.i]
    IN /\ lauf.lokal.co2_abgabe =
              IF lauf.parameter = "co2_abgabe" THEN Mul(CO2_ABGABE_CHF_PRO_T, f)
              ELSE CO2_ABGABE_CHF_PRO_T
       /\ IF lauf.lokal.energiepreise.art = "global"
          THEN modul.ENERGIEPREISE = ENERGIEPREISE
          ELSE lauf.lokal.energiepreise.tabelle =
                   [k \in DOMAIN ENERGIEPREISE |-> Mul(ENERGIEPREISE[k], f)]

\* C14: two sweeps whose steps interleave in any order each return exactly
\* the rows they return alone, and no pass holds a price or a levy scaled by
\* the other sweep.
C14_Parallel ==
    /\ \A t \in DOMAIN laeufe : laeufe[t].zustand = "skaliert" => EigeneSkalierung(t)
    /\ \A i \in Sweeps : WieAllein(i)

C14_Witness ==
    /\ Len(laeufe) = 2
    /\ laeufe[1].zustand = "skaliert"
    /\ laeufe[2].zustand = "skaliert"
    /\ laeufe[1].parameter = "energiepreis"
    /\ laeufe[2].parameter = "co2_abgabe"
    /\ laeufe[1].i = 2
    /\ laeufe[2].i = 2
    /\ Len(laeufe[1].ergebnisse) = 1
    /\ Len(laeufe[2].ergebnisse) = 1
    /\ laeufe[1].lokal.co2_abgabe = R(120)
    /\ laeufe[2].lokal.co2_abgabe = R(240)

\* C15: the row of an energy-price sweep with multiplier 1.0 has exactly the
\* amortisation_jahre, npv_chf and roi_prozent that wirtschaftlichkeitsanalyse
\* returns for the same scenario and building.
C15_Neutral ==
    \A i \in Sweeps :
        aufrufe[i].parameter = "energiepreis" =>
            LET analyse == wirtschaftlichkeitsanalyse(eingabe.sanierung, eingabe.gebaeude)
            IN IF "fehler" \in DOMAIN analyse THEN "fehler" \in DOMAIN aufrufe[i]
               ELSE /\ "zeilen" \in DOMAIN aufrufe[i]
                    /\ \A k \in DOMAIN aufrufe[i].zeilen :
                          aufrufe[i].zeilen[k].faktor = R(1) =>
                              /\ aufrufe[i].zeilen[k].amortisation_jahre
                                     = analyse["amortisation_jahre"]
                              /\ aufrufe[i].zeilen[k].npv_chf = analyse["npv_chf"]
                              /\ aufrufe[i].zeilen[k].roi_prozent = analyse["roi_prozent"]

C15_Witness ==
    /\ Sweeps # {}
    /\ \E i \in Sweeps :
          /\ aufrufe[i].parameter = "energiepreis"
          /\ "zeilen" \in DOMAIN aufrufe[i]
          /\ eingabe.sanierung["sanierung_id"] = "kombi_vollsanierung"
          /\ \E k \in DOMAIN aufrufe[i].zeilen :
                /\ aufrufe[i].zeilen[k].faktor = R(1)
                /\ IstZahl(aufrufe[i].zeilen[k].amortisation_jahre)
                /\ aufrufe[i].zeilen[k].npv_chf
                       = wirtschaftlichkeitsanalyse(eingabe.sanierung, eingabe.gebaeude)["npv_chf"]

Rangaufrufe == {i \in DOMAIN aufrufe : aufrufe[i].funktion = "priorisiere_sanierungen"}

\* C16: the score of every evaluated scenario lies between 0 and 100.
C16_Score ==
    \A i \in Rangaufrufe : \A j \in DOMAIN aufrufe[i].ergebnis :
        /\ Leq(R(0), aufrufe[i].ergebnis[j]["prioritaets_score"])
        /\ Leq(aufrufe[i].ergebnis[j]["prioritaets_score"], R(100))

Kern(san) == [k \in DOMAIN san \ {"rang", "prioritaets_score"} |-> san[k]]

Passt(zeile, san) == \A k \in DOMAIN Kern(san) : zeile[k] = san[k]

Sortiert(zeilen, kriterium) ==
    \A i, j \in DOMAIN zeilen :
        i < j => IF kriterium = "amortisation"
                 THEN Leq(zeilen[i][Sortierspalte(kriterium)], zeilen[j][Sortierspalte(kriterium)])
                 ELSE Leq(zeilen[j][Sortierspalte(kriterium)], zeilen[i][Sortierspalte(kriterium)])

\* C17: the ranking holds every input scenario exactly once, carries the
\* scenario's score, is ordered by the criterion (score, co2, roi and npv
\* descending, amortisation ascending with the infinite ones last), and
\* numbers its rows rang = 1..n.
C17_Rangliste ==
    \A i \in Rangaufrufe :
        LET ein == aufrufe[i].sanierungen
            aus == aufrufe[i].ergebnis
        IN /\ Len(aus) = Len(ein)
           /\ \A j \in DOMAIN ein :
                 Cardinality({k \in DOMAIN aus : Passt(aus[k], ein[j])})
                 = Cardinality({k \in DOMAIN ein : Kern(ein[k]) = Kern(ein[j])})
           /\ \A j \in DOMAIN aus :
                 /\ aus[j]["rang"] = j
                 /\ \E k \in DOMAIN ein :
                       /\ Passt(aus[j], ein[k])
                       /\ aus[j]["prioritaets_score"] = berechne_prioritaets_score(ein[k], None)
           /\ Sortiert(aus, aufrufe[i].kriterium)

C17_Witness ==
    \E i \in Rangaufrufe :
        LET ein == aufrufe[i].sanierungen
            aus == aufrufe[i].ergebnis
        IN /\ aufrufe[i].kriterium = "amortisation"
           /\ Len(aus) >= 3
           /\ aus[1]["amortisation_jahre"] # Inf
           /\ aus[Len(aus)]["amortisation_jahre"] = Inf
           /\ \E j \in DOMAIN aus : ~Passt(aus[j], ein[j])
           /\ \E j \in Rangaufrufe :
                 /\ aufrufe[j].kriterium = "amortisation"
                 /\ j # i

RECURSIVE StabileOrdnung(_, _, _)
\* The one order a stable sort returns: among equal keys the earlier row first.
StabileOrdnung(rest, schluessel, ascending) ==
    IF rest = {} THEN <<>>
    ELSE LET i == CHOOSE j \in rest : \A k \in rest :
                     IF ascending
                     THEN Lt(schluessel[j], schluessel[k]) \/ (schluessel[j] = schluessel[k] /\ j <= k)
                     ELSE Lt(schluessel[k], schluessel[j]) \/ (schluessel[j] = schluessel[k] /\ j <= k)
         IN <<i>> \o StabileOrdnung(rest \ {i}, schluessel, ascending)

RECURSIVE Greedy(_, _, _, _)
\* The rows of df[k..bis] that fit the budget left when their turn comes.
Greedy(zeilen, k, bis, rest) ==
    IF k > bis THEN <<>>
    ELSE IF Leq(zeilen[k]["investition_netto_chf"], rest)
         THEN <<zeilen[k]>> \o Greedy(zeilen, k + 1, bis, Sub(rest, zeilen[k]["investition_netto_chf"]))
         ELSE Greedy(zeilen, k + 1, bis, rest)

Portfolioaufrufe == {i \in DOMAIN aufrufe : aufrufe[i].funktion = "portfolio_optimierung"}

\* C19: the loop goes through all evaluated scenarios of all buildings in
\* descending score order and has selected, among the rows visited, exactly
\* those whose net investment fitted the budget left at their turn (a row
\* that does not fit does not end the loop); for every budget >= 0 the call
\* returns a summary whose rows are that selection, whose total net
\* investment is at most the budget, and with verbleibendes_budget_chf =
\* budget - gesamt_investition_chf >= 0.
C19_Portfolio ==
    /\ \A t \in DOMAIN laeufe :
          /\ Len(laeufe[t].df) = Len(Optionen(eingabe.gebaeude_liste, KBOB_FAKTOREN, 1))
          /\ Sortiert(laeufe[t].df, "score")
          /\ laeufe[t].ausgewaehlte
             = Greedy(laeufe[t].df, 1, laeufe[t].position - 1, eingabe.budget_chf)
    /\ \A i \in Portfolioaufrufe :
          LET erg == aufrufe[i].ergebnis
          IN /\ erg # ZeroDivisionError
             /\ erg.massnahmen = Greedy(aufrufe[i].df, 1, Len(aufrufe[i].df), aufrufe[i].budget_chf)
             /\ Leq(erg.gesamt_investition_chf, aufrufe[i].budget_chf)
             /\ erg.verbleibendes_budget_chf
                = Sub(aufrufe[i].budget_chf, erg.gesamt_investition_chf)
             /\ Leq(R(0), erg.verbleibendes_budget_chf)

Huellenmassnahmen == {"daemmung_fassade", "daemmung_dach", "fenster"}

\* C20: for every building of the run, also one whose heating type has no
\* entry in the factor table, the CO2 saving of an envelope measure is its
\* energieeinsparung_prozent / 100 of the building's emissionen_heizen_kg,
\* and so never more than the building's heating emissions.
C20_Huelle ==
    \A i \in DOMAIN alle_sanierungen : \A j \in DOMAIN df_mit_emissionen :
        LET san == alle_sanierungen[i]
            g == df_mit_emissionen[j]
        IN ("sanierung_id" \in DOMAIN san
            /\ san["sanierung_id"] \in Huellenmassnahmen
            /\ g["jahr"] = MaxJahr(df.zeilen)
            /\ g["gebaeude_id"] = san["gebaeude_id"])
           => /\ san["co2_einsparung_kg_jahr"]
                 = Mul(Div(SANIERUNGSKATALOG[san["sanierung_id"]]["energieeinsparung_prozent"],
                           R(100)), g["emissionen_heizen_kg"])
              /\ Leq(san["co2_einsparung_kg_jahr"], g["emissionen_heizen_kg"])

\* The row of df_aktuell the loop of main() has processed last.
Bearbeitet == IF pc = "absturz" THEN position ELSE position - 1

RECURSIVE Feldsumme(_, _)
Feldsumme(liste, feld) ==
    IF liste = <<>> THEN R(0) ELSE Add(Head(liste)[feld], Feldsumme(Tail(liste), feld))

Summenfelder ==
    {"investition_brutto_chf", "foerderung_chf", "investition_netto_chf",
     "co2_einsparung_kg_jahr"}

\* C21: every combination scenario has gross investment, subsidy, net
\* investment and CO2 saving equal to the sums over its massnahmen and the
\* fixed lifetime 20 (heat pump + PV) or 30 (full retrofit); heat pump + PV
\* exists iff the heating is Gas or Oel, the full retrofit iff in addition
\* flaeche_m2 > 0.
C21_Kombination ==
    (pc \in {"szenarien", "absturz", "fertig"} /\ Bearbeitet >= 1) =>
        LET g == df_aktuell[Bearbeitet]
            ids == {kombinationen[i]["sanierung_id"] : i \in DOMAIN kombinationen}
        IN /\ ids \subseteq {"kombi_heizung_solar", "kombi_vollsanierung"}
           /\ Cardinality(ids) = Len(kombinationen)
           /\ "kombi_heizung_solar" \in ids <=> g["heizung_typ"] \in {"Gas", "Oel"}
           /\ "kombi_vollsanierung" \in ids
              <=> /\ g["heizung_typ"] \in {"Gas", "Oel"}
                  /\ "flaeche_m2" \in DOMAIN g
                  /\ Lt(R(0), g["flaeche_m2"])
           /\ \A i \in DOMAIN kombinationen :
                 LET k == kombinationen[i]
                 IN /\ \A feld \in Summenfelder : k[feld] = Feldsumme(k["massnahmen"], feld)
                    /\ Len(k["massnahmen"])
                       = IF k["sanierung_id"] = "kombi_heizung_solar" THEN 2 ELSE 4
                    /\ k["lebensdauer_jahre"]
                       = IF k["sanierung_id"] = "kombi_heizung_solar" THEN 20 ELSE 30

C21_Witness ==
    /\ pc = "szenarien"
    /\ \E i \in DOMAIN kombinationen :
          LET k == kombinationen[i]
          IN /\ k["sanierung_id"] = "kombi_vollsanierung"
             /\ Lt(R(0), k["foerderung_chf"])
             /\ Lt(R(0), k["co2_einsparung_kg_jahr"])
             /\ \E a, b \in DOMAIN k["massnahmen"] :
                   /\ k["massnahmen"][a]["lebensdauer_jahre"] < 30
                   /\ k["massnahmen"][b]["lebensdauer_jahre"] > 30

\* C22: in every evaluated record with net investment > 0 the lifetime ROI
\* is (gesamtertrag_chf - net investment) / net investment * 100, that is
\* nettogewinn_chf / investition_netto_chf * 100.
C22_RoiLebensdauer ==
    \A i \in DOMAIN alle_sanierungen :
        LET san == alle_sanierungen[i]
        IN Lt(R(0), san["investition_netto_chf"]) =>
              /\ san["nettogewinn_chf"]
                 = Sub(san["gesamtertrag_chf"], san["investition_netto_chf"])
              /\ san["roi_lebensdauer_prozent"]
                 = Mul(Div(san["nettogewinn_chf"], san["investition_netto_chf"]), R(100))

RECURSIVE Potenzfolge(_, _)
\* folge extended by n further powers of 1 + PREISSTEIGERUNG_PROZENT / 100,
\* in units of 1/PotenzRaster.
Potenzfolge(folge, n) ==
    IF n <= 0 THEN folge
    ELSE IF n = 1
    THEN Append(folge, Potenz(IF folge = <<>> THEN PotenzRaster ELSE folge[Len(folge)],
                              PREISSTEIGERUNG_PROZENT))
    ELSE Potenzfolge(Potenzfolge(folge, n \div 2), n - n \div 2)

Basiseinsparung ==
    berechne_jaehrliche_einsparung(
        eingabe.sanierung, eingabe.gebaeude["heizung_typ"],
        eingabe.gebaeude["jahresverbrauch_kwh"], ENERGIEPREISE, CO2_ABGABE_CHF_PRO_T)

\* C24: in an energy-price sweep every price is scaled, for every heating
\* type of the building (one without an entry in the price table too): the
\* row of the multiplier m has annual savings m * the baseline's energy-cost
\* savings + the baseline's unchanged CO2-levy savings.
C24_Energiepreis ==
    \A i \in Sweeps :
        (aufrufe[i].parameter = "energiepreis" /\ "zeilen" \in DOMAIN aufrufe[i]) =>
            \A k \in DOMAIN aufrufe[i].zeilen :
                aufrufe[i].zeilen[k]["jaehrliche_einsparung_chf"]
                = Add(Mul(aufrufe[i].zeilen[k]["faktor"],
                          Basiseinsparung["energiekosteneinsparung_chf"]),
                      Basiseinsparung["co2_abgabe_einsparung_chf"])

\* max(0, gross investment - m * subsidy) of the sweep's scenario.
NettoBei(m) ==
    Max(R(0), Sub(eingabe.sanierung["investition_brutto_chf"],
                  Mul(m, eingabe.sanierung["foerderung_chf"])))

\* C25: in a subsidy sweep the pass of the multiplier m >= 0 evaluates the
\* scenario with net investment max(0, gross - m * subsidy), never a
\* negative one; the annual savings of every row are the baseline's, so with
\* positive savings the amortisation does not grow with m; and the row of
\* m = 1.0 has the figures of the scenario's baseline evaluation.
C25_Foerderung ==
    /\ \A t \in DOMAIN laeufe :
          laeufe[t].zustand = "skaliert" =>
              /\ laeufe[t].lokal.san_kopie["investition_netto_chf"]
                 = NettoBei(laeufe[t].variationen[laeufe[t].i])
              /\ Leq(R(0), _get_netto_investition(laeufe[t].lokal.san_kopie))
    /\ \A i \in Sweeps :
          (aufrufe[i].parameter = "foerderung" /\ "zeilen" \in DOMAIN aufrufe[i]) =>
              LET zeilen == aufrufe[i].zeilen
                  basis == wirtschaftlichkeitsanalyse(eingabe.sanierung, eingabe.gebaeude)
              IN /\ Len(zeilen) = Len(aufrufe[i].variationen)
                 /\ \A k \in DOMAIN zeilen :
                       /\ zeilen[k]["faktor"] = aufrufe[i].variationen[k]
                       /\ zeilen[k]["jaehrliche_einsparung_chf"]
                          = Basiseinsparung["gesamteinsparung_chf_jahr"]
                       /\ zeilen[k]["amortisation_jahre"]
                          = berechne_amortisation(NettoBei(zeilen[k]["faktor"]),
                                                  zeilen[k]["jaehrliche_einsparung_chf"])
                       /\ zeilen[k]["faktor"] = R(1) =>
                             \A feld \in {"amortisation_jahre", "npv_chf", "roi_prozent",
                                          "jaehrliche_einsparung_chf"} :
                                 zeilen[k][feld] = basis[feld]
                 /\ \A k, l \in DOMAIN zeilen :
                       (/\ Leq(zeilen[k]["faktor"], zeilen[l]["faktor"])
                        /\ Lt(R(0), zeilen[k]["jaehrliche_einsparung_chf"]))
                       => Leq(zeilen[l]["amortisation_jahre"], zeilen[k]["amortisation_jahre"])

C25_Witness ==
    \E i \in Sweeps :
        /\ aufrufe[i].parameter = "foerderung"
        /\ "zeilen" \in DOMAIN aufrufe[i]
        /\ aufrufe[i].variationen = <<R(0), R(1), R(10)>>
        /\ Lt(R(0), aufrufe[i].zeilen[1]["jaehrliche_einsparung_chf"])
        /\ Lt(aufrufe[i].zeilen[2]["amortisation_jahre"], aufrufe[i].zeilen[1]["amortisation_jahre"])
        /\ Lt(R(0), aufrufe[i].zeilen[2]["amortisation_jahre"])
        /\ aufrufe[i].zeilen[3]["amortisation_jahre"] = R(0)
        /\ Lt(eingabe.sanierung["investition_brutto_chf"],
              Mul(R(10), eingabe.sanierung["foerderung_chf"]))

\* The ids of the envelope measures in a list of scenarios, those inside
\* the massnahmen of a combination included.
Huellen_in(liste) ==
    Huellenmassnahmen
    \cap ({liste[i]["sanierung_id"] : i \in DOMAIN liste}
          \cup UNION {IF "massnahmen" \in DOMAIN liste[i]
                      THEN {liste[i]["massnahmen"][j]["sanierung_id"] :
                                j \in DOMAIN liste[i]["massnahmen"]}
                      ELSE {} : i \in DOMAIN liste})

\* C26: berechne_daemmung called on a building without flaeche_m2 raises and
\* returns no scenario; erstelle_alle_szenarien and
\* erstelle_kombinationsszenarien never raise for a building without
\* flaeche_m2 or with flaeche_m2 <= 0, they leave the envelope measures out.
C26_Flaeche ==
    \A i \in DOMAIN aufrufe :
        LET ohne == \/ "flaeche_m2" \notin DOMAIN eingabe.gebaeude
                    \/ Leq(eingabe.gebaeude["flaeche_m2"], R(0))
        IN /\ (/\ aufrufe[i].funktion = "berechne_daemmung"
               /\ "flaeche_m2" \notin DOMAIN eingabe.gebaeude)
              => aufrufe[i].ergebnis = ValueError
           /\ (/\ aufrufe[i].funktion
                     \in {"erstelle_alle_szenarien", "erstelle_kombinationsszenarien"}
               /\ ohne)
              => /\ \A j \in DOMAIN aufrufe[i].ergebnis :
                       /\ "fehler" \notin DOMAIN aufrufe[i].ergebnis[j]
                       /\ "sanierung_id" \in DOMAIN aufrufe[i].ergebnis[j]
                 /\ Huellen_in(aufrufe[i].ergebnis) = {}

C26_Witness ==
    /\ Len(aufrufe) = 2
    /\ "flaeche_m2" \notin DOMAIN eingabe.gebaeude
    /\ eingabe.gebaeude["heizung_typ"] = "Gas"
    /\ aufrufe[1].funktion = "berechne_daemmung"
    /\ aufrufe[1].ergebnis = ValueError
    /\ aufrufe[2].funktion = "erstelle_alle_szenarien"
    /\ Len(aufrufe[2].ergebnis) = 2

Planaufrufe ==
    {i \in DOMAIN aufrufe : aufrufe[i].funktion = "optimiere_sanierungsreihenfolge"}

Ids(massnahmen) == {massnahmen[i]["gebaeude_id"] : i \in DOMAIN massnahmen}

\* The yearly plans are numbered 1, 2, ..., each holds at least one measure
\* and invests at most the budget, and no building is in two of them.
Planregeln(jahresplaene, budget) ==
    /\ Len(jahresplaene) <= IF eingabe.jahre < 0 THEN 0 ELSE eingabe.jahre
    /\ \A k \in DOMAIN jahresplaene :
          /\ jahresplaene[k].jahr = k
          /\ jahresplaene[k].anzahl_massnahmen >= 1
          /\ Len(jahresplaene[k].massnahmen) = jahresplaene[k].anzahl_massnahmen
          /\ jahresplaene[k].investition_chf
             = Feldsumme(jahresplaene[k].massnahmen, "investition_netto_chf")
          /\ Leq(jahresplaene[k].investition_chf, budget)
    /\ \A k, l \in DOMAIN jahresplaene :
          k # l => Ids(jahresplaene[k].massnahmen) \cap Ids(jahresplaene[l].massnahmen) = {}

\* The buildings of the frame that are in none of the plans.
Unsaniert(jahresplaene) ==
    SelectSeq(eingabe.df, LAMBDA g :
        \A k \in DOMAIN jahresplaene : g["gebaeude_id"] \notin Ids(jahresplaene[k].massnahmen))

\* C27: optimiere_sanierungsreihenfolge runs at most jahre rounds and returns
\* at the first round in which no building is left or the selection picks
\* nothing; a building with a selected measure is in no later round, so no
\* building is in the plans of two years; every yearly plan holds at least
\* one measure and invests at most the annual budget; with the default
\* unlimited budget every building is covered in year 1.
C27_Reihenfolge ==
    /\ \A t \in DOMAIN laeufe :
          /\ Planregeln(laeufe[t].jahresplaene, laeufe[t].budget_pro_jahr_chf)
          /\ Len(laeufe[t].jahresplaene) = laeufe[t].jahr - 1
          /\ laeufe[t].restliche_gebaeude = Unsaniert(laeufe[t].jahresplaene)
    /\ \A i \in Planaufrufe :
          /\ "ergebnis" \in DOMAIN aufrufe[i]
          /\ LET erg == aufrufe[i].ergebnis
                 rest == aufrufe[i].restliche_gebaeude
             IN /\ Planregeln(erg.jahresplaene, erg.budget_pro_jahr_chf)
                /\ rest = Unsaniert(erg.jahresplaene)
                /\ erg.anzahl_verbleibende_gebaeude = Len(rest)
                /\ \/ Len(erg.jahresplaene) = eingabe.jahre
                   \/ rest = <<>>
                   \/ \A o \in portfolio_optimierung(rest, erg.budget_pro_jahr_chf, KBOB_FAKTOREN) :
                         o # ZeroDivisionError /\ o.anzahl_massnahmen = 0
                /\ (eingabe.budget_pro_jahr_chf = None /\ eingabe.jahre >= 1)
                   => /\ rest = <<>>
                      /\ Len(erg.jahresplaene) = 1
                      /\ \A k \in DOMAIN eingabe.df :
                            eingabe.df[k]["gebaeude_id"] \in Ids(erg.jahresplaene[1].massnahmen)

\* C28: when the scenario handed to sensitivitaetsanalyse is the first row of
\* the filtered ranked table as a dict, every sweep that returns has a
\* multiplier-1.0 row whose annual savings and amortisation are those the
\* row itself reports from its evaluation.
C28_Tabellenzeile ==
    \A i \in Sweeps :
        "zeilen" \in DOMAIN aufrufe[i] =>
            \A j \in DOMAIN aufrufe[i].zeilen :
                aufrufe[i].zeilen[j].faktor = R(1) =>
                    /\ aufrufe[i].zeilen[j].jaehrliche_einsparung_chf
                           = eingabe.sanierung["jaehrliche_einsparung_chf"]
                    /\ aufrufe[i].zeilen[j].amortisation_jahre
                           = eingabe.sanierung["amortisation_jahre"]

Szenarioaufrufe ==
    {i \in DOMAIN aufrufe : aufrufe[i].funktion = "berechne_portfolio_szenarien"}

\* C29: for every documented value of szenario, a returning call of
\* berechne_portfolio_szenarien reports a reduction backed by its measures:
\* einsparung_t_jahr * 1000 is the sum of co2_einsparung_kg over massnahmen,
\* neue_emissionen_t is ist_emissionen_t - einsparung_t_jahr, and a result
\* without measures reports a reduction of 0.
C29_Szenarien ==
    \A i \in Szenarioaufrufe :
        "fehler" \notin DOMAIN aufrufe[i].ergebnis =>
            Wert(aufrufe[i].ergebnis, LAMBDA e :
                /\ Mul(e.einsparung_t_jahr, R(1000)) = Feldsumme(e.massnahmen, "co2_einsparung_kg")
                /\ e.neue_emissionen_t = Sub(e.ist_emissionen_t, e.einsparung_t_jahr)
                /\ (e.massnahmen = <<>> => e.einsparung_t_jahr = R(0)))

\* The keys that decide the branch of berechne_jaehrliche_einsparung.
Formschluessel == {"neue_heizung", "energieeinsparung_kwh_jahr", "eigenverbrauch_kwh"}

\* The evaluated combinations of the building handled last.
BewerteteKombinationen ==
    {i \in DOMAIN letzte_bewertete : "massnahmen" \in DOMAIN letzte_bewertete[i]}

\* The annual savings the evaluation reports for the constituent measures of
\* a combination, summed.
Einsparung_der_Massnahmen(k) ==
    Feldsumme([j \in DOMAIN k["massnahmen"] |->
                  CHOOSE san \in Bereich(letzte_bewertete) :
                      san["sanierung_id"] = k["massnahmen"][j]["sanierung_id"]],
              "jaehrliche_einsparung_chf")

\* The part of C30 about the evaluation: no shape key, energy-cost savings 0,
\* total annual savings = co2_einsparung_kg_jahr / 1000 * CO2 tax rate.
NurAbgabe(k) ==
    /\ DOMAIN k \cap Formschluessel = {}
    /\ k["energiekosteneinsparung_chf"] = R(0)
    /\ k["gesamteinsparung_chf_jahr"]
       = Mul(Div(k["co2_einsparung_kg_jahr"], R(1000)), CO2_ABGABE_CHF_PRO_T)
    /\ k["jaehrliche_einsparung_chf"] = k["gesamteinsparung_chf_jahr"]

\* C30 as stated: an evaluated combination scenario carries no shape key, has
\* energy-cost savings 0 and total annual savings of
\* co2_einsparung_kg_jahr / 1000 * CO2 tax rate, and this total is not the sum
\* of the annual savings of its constituent measures.
C30_Original ==
    \A i \in BewerteteKombinationen :
        /\ NurAbgabe(letzte_bewertete[i])
        /\ letzte_bewertete[i]["gesamteinsparung_chf_jahr"]
           # Einsparung_der_Massnahmen(letzte_bewertete[i])

\* C30: an evaluated combination scenario carries no shape key, has
\* energy-cost savings 0 and total annual savings of
\* co2_einsparung_kg_jahr / 1000 * CO2 tax rate; this total is not the sum
\* of the annual savings of its constituent measures unless that sum is 0.
C30_Kombination ==
    \A i \in BewerteteKombinationen :
        /\ NurAbgabe(letzte_bewertete[i])
        /\ Einsparung_der_Massnahmen(letzte_bewertete[i]) # R(0) =>
               letzte_bewertete[i]["gesamteinsparung_chf_jahr"]
               # Einsparung_der_Massnahmen(letzte_bewertete[i])

C30_Witness ==
    /\ pc = "szenarien"
    /\ \E i \in BewerteteKombinationen :
          /\ letzte_bewertete[i]["sanierung_id"] = "kombi_vollsanierung"
          /\ Lt(R(0), letzte_bewertete[i]["alte_energiekosten_chf"])
          /\ Lt(R(0), letzte_bewertete[i]["gesamteinsparung_chf_jahr"])
          /\ Lt(letzte_bewertete[i]["gesamteinsparung_chf_jahr"],
                Einsparung_der_Massnahmen(letzte_bewertete[i]))

====
